---- MODULE Spec2Model ----
(***************************************************************************)
(* Connection handling of node-red-contrib-postgres-pgvector:              *)
(* lib/client.js (withClient, queryWithRetry) running against a bounded    *)
(* pg pool, and the input handlers of the operation nodes that call them.  *)
(* Every request is one logical call; its steps between two awaits are one *)
(* action each.                                                            *)
(***************************************************************************)
EXTENDS Integers, Sequences, FiniteSets, TLC

(* ------------------------------ bounds -------------------------------- *)
\* requests in flight on one pool
NumReqs == 2
\* largest pool size (pool option max) the model constructs
MaxPool == 1
\* largest maxRetries an API caller of queryWithRetry passes
MaxRetriesArg == 2
\* largest retryDelay (ms) an API caller of queryWithRetry passes
MaxDelayArg == 2

Reqs == 1..NumReqs

(* --------------------- error objects of pg / node ---------------------- *)
\* message texts, one character per element, so that String.includes is a
\* real substring search
NeedleTimeout ==
  <<"t","i","m","e","o","u","t">>
NeedleTerminated ==
  <<"C","o","n","n","e","c","t","i","o","n"," ","t","e","r","m","i","n","a","t","e","d">>
MsgRefused ==
  <<"c","o","n","n","e","c","t"," ","E","C","O","N","N","R","E","F","U","S","E","D">>
MsgNotFound ==
  <<"g","e","t","a","d","d","r","i","n","f","o"," ","E","N","O","T","F","O","U","N","D">>
MsgTimedOut ==
  <<"c","o","n","n","e","c","t"," ","E","T","I","M","E","D","O","U","T">>
MsgStartingUp ==
  <<"t","h","e"," ","d","a","t","a","b","a","s","e"," ","s","y","s","t","e","m"," ","i","s"," ","s","t","a","r","t","i","n","g"," ","u","p">>
MsgTooMany ==
  <<"s","o","r","r","y",","," ","t","o","o"," ","m","a","n","y"," ","c","l","i","e","n","t","s"," ","a","l","r","e","a","d","y">>
MsgTerminated ==
  <<"C","o","n","n","e","c","t","i","o","n"," ","t","e","r","m","i","n","a","t","e","d"," ","u","n","e","x","p","e","c","t","e","d","l","y">>
MsgStatementTimeout ==
  <<"c","a","n","c","e","l","i","n","g"," ","s","t","a","t","e","m","e","n","t"," ","d","u","e"," ","t","o"," ","s","t","a","t","e","m","e","n","t"," ","t","i","m","e","o","u","t">>
MsgSyntax ==
  <<"s","y","n","t","a","x"," ","e","r","r","o","r"," ","a","t"," ","e","n","d"," ","o","f"," ","i","n","p","u","t">>
MsgPermission ==
  <<"p","e","r","m","i","s","s","i","o","n"," ","d","e","n","i","e","d"," ","f","o","r"," ","t","a","b","l","e"," ","i","t","e","m","s">>
MsgNoTable ==
  <<"r","e","l","a","t","i","o","n"," ","i","t","e","m","s"," ","d","o","e","s"," ","n","o","t"," ","e","x","i","s","t">>
MsgDuplicate ==
  <<"d","u","p","l","i","c","a","t","e"," ","k","e","y"," ","v","a","l","u","e"," ","v","i","o","l","a","t","e","s"," ","u","n","i","q","u","e"," ","c","o","n","s","t","r","a","i","n","t">>
MsgAdminShutdown ==
  <<"t","e","r","m","i","n","a","t","i","n","g"," ","c","o","n","n","e","c","t","i","o","n"," ","d","u","e"," ","t","o"," ","a","d","m","i","n","i","s","t","r","a","t","o","r"," ","c","o","m","m","a","n","d">>

\* String.prototype.includes
Includes(msg, needle) ==
  \E i \in 0..(Len(msg) - Len(needle)) :
     SubSeq(msg, i + 1, i + Len(needle)) = needle

\* an error as the backend or the driver raises it; code "undefined" and
\* hasMessage = FALSE stand for an absent property
Err(c, hm, m) == [code |-> c, hasMessage |-> hm, message |-> m]

ErrRefused == Err("ECONNREFUSED", TRUE, MsgRefused)
ErrNotFound == Err("ENOTFOUND", TRUE, MsgNotFound)
ErrTimedOut == Err("ETIMEDOUT", TRUE, MsgTimedOut)
ErrStartingUp == Err("57P03", TRUE, MsgStartingUp)
ErrTooMany == Err("53300", TRUE, MsgTooMany)
ErrTerminated == Err("undefined", TRUE, MsgTerminated)
ErrStatementTimeout == Err("57014", TRUE, MsgStatementTimeout)
ErrSyntax == Err("42601", TRUE, MsgSyntax)
ErrPermission == Err("42501", TRUE, MsgPermission)
ErrNoTable == Err("42P01", TRUE, MsgNoTable)
ErrDuplicate == Err("23505", TRUE, MsgDuplicate)
ErrAdminShutdown == Err("57P01", TRUE, MsgAdminShutdown)
ErrBare == Err("undefined", FALSE, <<>>)

\* everything an attempt of the retry model may raise
AllErrors ==
  { ErrRefused, ErrNotFound, ErrTimedOut, ErrStartingUp, ErrTooMany,
    ErrTerminated, ErrStatementTimeout, ErrSyntax, ErrPermission,
    ErrNoTable, ErrDuplicate, ErrAdminShutdown, ErrBare }

\* what the backend raises in the concurrent model: one transient, one permanent
PoolErrors == { ErrRefused, ErrSyntax }

\* the error object raised by attempt k: the same text raised twice is two objects
Raised(e, k) == [code |-> e.code, hasMessage |-> e.hasMessage,
                 message |-> e.message, at |-> k]

\* the value of a variable never assigned (let lastError;)
Undefined == [code |-> "undefined", hasMessage |-> FALSE, message |-> <<>>, at |-> -1]

\* a settled promise: fulfilled by attempt at, or rejected with err
\* value: "rows" for a query result, "true" or "false" for a boolean
Fulfilled(k) == [ok |-> TRUE, err |-> Undefined, at |-> k, value |-> "rows"]
Rejected(e) == [ok |-> FALSE, err |-> e, at |-> e.at, value |-> "none"]
Pending == [ok |-> FALSE, err |-> Undefined, at |-> -1, value |-> "none"]
Resolved(v) == [ok |-> TRUE, err |-> Undefined, at |-> 0, value |-> v]

(* --------------------------- program constants ------------------------- *)
DEFAULT_QUERY_TIMEOUT == 60000
DEFAULT_MAX_RETRIES == 3
DEFAULT_RETRY_DELAY == 1000
DEFAULT_TEST_TIMEOUT == 5000
SEARCH_MAX_RETRIES == 2
SEARCH_RETRY_DELAY == 500

(* -------------------------------- state -------------------------------- *)
VARIABLES
  poolMax,       \* pool option max
  held,          \* held[r]: clients of the pool checked out by request r
  pendingQueue,  \* pool.connect() calls waiting for a client, oldest first
  pc,            \* where request r stands
  node,          \* "api" for a direct library call, else the node type
  kind,          \* the library function the request runs through
  timeout,       \* the timeout argument passed to withClient
  maxRetries,    \* options.maxRetries, as the number the comparisons see
  maxRetriesType, \* "number"; "coerced" for a numeric string or null, which compare
                 \* as their number but are === to no number; "NaN" for anything else
  retryDelay,    \* options.retryDelay
  attempt,       \* loop variable of queryWithRetry
  lastError,     \* variable lastError of queryWithRetry
  settled,       \* outcome of the current withClient call, not yet seen by its caller
  result,        \* what the caller of the library function received
  attempts,      \* history: withClient calls made for the request
  call,          \* history: what the current withClient call did
  waits,         \* history: delays of the backoff timers started, in order
  lastRaised,    \* history: the error object raised by the latest failed call
  allTransient,  \* history: every failed call so far raised a listed transient error
  input,         \* the message and configuration an input handler works on
  sendCalls,     \* send(msg) calls of the handler
  doneCalls,     \* done() / done(err) calls of the handler
  errorCalls,    \* node.error calls of the handler
  args,          \* the arguments of a call of a vector-utils function
  ret,           \* what that call returned or threw
  client,        \* client[r]: the connection request r has checked out, 0 for none
  statementTimeout, \* statement_timeout of the session of each connection, 0 if never set
  config,        \* the configuration and credentials a config node is constructed with
  pool,          \* this.pool of the config node, and how far pool.end() has got
  errors,        \* the validation errors array of the constructor
  reported,      \* node.error messages of the config node, in order
  closing        \* the calls of the close handler: settled or not, and their done() calls

poolVars == <<poolMax, held, pendingQueue>>
reqVars == <<pc, node, kind, timeout, maxRetries, maxRetriesType, retryDelay, attempt, lastError, settled, result>>
histVars == <<attempts, call, waits, lastRaised, allTransient>>
nodeVars == <<input, sendCalls, doneCalls, errorCalls>>
utilVars == <<args, ret>>
sessionVars == <<client, statementTimeout>>
configVars == <<config, pool, errors, reported, closing>>
vars == <<poolVars, reqVars, histVars, nodeVars, utilVars, sessionVars, configVars>>

FreshCall == [connected |-> FALSE, setFailed |-> FALSE, fnRuns |-> 0, releases |-> 0]
NoInput == [type |-> "none"]
NoArgs == [fn |-> "none"]
NotCalled == [called |-> FALSE]

RECURSIVE SumHeld(_, _)
SumHeld(h, S) ==
  IF S = {} THEN 0
  ELSE LET r == CHOOSE x \in S : TRUE IN h[r] + SumHeld(h, S \ {r})

\* clients of the pool checked out at this instant
CheckedOut == SumHeld(held, Reqs)

InitRequests ==
  /\ held = [r \in Reqs |-> 0]
  /\ pendingQueue = <<>>
  /\ pc = [r \in Reqs |-> "idle"]
  /\ node = [r \in Reqs |-> "api"]
  /\ kind = [r \in Reqs |-> "none"]
  /\ timeout = [r \in Reqs |-> 0]
  /\ maxRetries = [r \in Reqs |-> 0]
  /\ maxRetriesType = [r \in Reqs |-> "number"]
  /\ retryDelay = [r \in Reqs |-> 0]
  /\ attempt = [r \in Reqs |-> 0]
  /\ lastError = [r \in Reqs |-> Undefined]
  /\ settled = [r \in Reqs |-> Pending]
  /\ result = [r \in Reqs |-> Pending]
  /\ attempts = [r \in Reqs |-> 0]
  /\ call = [r \in Reqs |-> FreshCall]
  /\ waits = [r \in Reqs |-> <<>>]
  /\ lastRaised = [r \in Reqs |-> Undefined]
  /\ allTransient = [r \in Reqs |-> TRUE]
  /\ input = [r \in Reqs |-> NoInput]
  /\ sendCalls = [r \in Reqs |-> 0]
  /\ doneCalls = [r \in Reqs |-> 0]
  /\ errorCalls = [r \in Reqs |-> 0]

\* no connection checked out, every session with the server's default
\* statement_timeout
InitSessions ==
  /\ client = [r \in Reqs |-> 0]
  /\ statementTimeout = [c \in 1..poolMax |-> 0]

\* the config node whose pool the requests use: constructed, not closed
ConfigString(c) == [type |-> "string", elems |-> <<>>, chars |-> <<c>>, num |-> 0]
ConfigAbsent == [type |-> "undefined", elems |-> <<>>, chars |-> <<>>, num |-> 0]

InitConfigured ==
  /\ config = [host |-> ConfigString("h"), port |-> ConfigAbsent,
               database |-> ConfigString("d"), user |-> ConfigString("u"),
               password |-> ConfigString("p"), max |-> ConfigAbsent]
  /\ pool = "open"
  /\ errors = <<>>
  /\ reported = <<>>
  /\ closing = <<>>

\* createPool: a pool of at most max clients, none checked out
Init ==
  /\ poolMax \in 1..MaxPool
  /\ InitRequests
  /\ InitSessions
  /\ InitConfigured
  /\ args = NoArgs
  /\ ret = NotCalled

(* ------------------------- lib/client.js helpers ----------------------- *)
\* if (timeout && timeout > 0)
TimeoutApplies(t) == t # 0 /\ t > 0

\* the listed transient classes as the documentation names them
ListedTransient(err) ==
  \/ err.code \in {"ECONNREFUSED", "ENOTFOUND", "ETIMEDOUT", "57P03", "53300"}
  \/ err.hasMessage /\ Includes(err.message, NeedleTerminated)

\* a classification that retries whatever was raised
isRetryable_Always(err) == TRUE

\* const isRetryable = ...
isRetryable(err) ==
  \/ err.code = "ECONNREFUSED"
  \/ err.code = "ENOTFOUND"
  \/ err.code = "ETIMEDOUT"
  \/ err.code = "57P03"
  \/ err.code = "53300"
  \/ err.hasMessage /\ Includes(err.message, NeedleTimeout)
  \/ err.hasMessage /\ Includes(err.message, NeedleTerminated)

\* a loop that stops one trip early
LoopContinues_Strict(a, mr) == a < mr

\* for (...; attempt <= maxRetries; ...)
LoopContinues(a, mr) == a <= mr

\* attempt === maxRetries
IsLastAttempt(a, mr) == a = mr

\* the error the catch block throws: throw err
Thrown_Earliest(err, previous) ==
  IF previous.at >= 0 THEN previous ELSE err

Thrown(err, previous) == err

RECURSIVE Pow2(_)
Pow2(k) == IF k <= 0 THEN 1 ELSE 2 * Pow2(k - 1)

\* a backoff that grows linearly
delay_Linear(rd, a) == rd * (a + 1)

\* const delay = retryDelay * Math.pow(2, attempt)
delay(rd, a) == rd * Pow2(a)

\* a withClient whose release sits at the end of the try block, not in finally
FinallyReleases_OnlyOnSuccess(exit) ==
  IF exit = "fnResolved" THEN 1 ELSE 0

\* a withClient that forgets the release when the statement was rejected
FinallyReleases_NotOnReject(exit) ==
  IF exit \in {"connectRejected", "fnRejected", "setRejected"} THEN 0 ELSE 1

\* a withClient that never gives the client back
FinallyReleases_Never(exit) == 0

\* client.release() calls made by withClient on each way out: pool.connect()
\* is awaited before the try, everything after it is inside try/finally
FinallyReleases(exit) ==
  IF exit = "connectRejected" THEN 0 ELSE 1

(* ------------------------------ withClient ----------------------------- *)
\* const client = await pool.connect(): the call joins the pool's queue
BeginWithClient(r) ==
  /\ pendingQueue' = Append(pendingQueue, r)
  /\ pc' = [pc EXCEPT ![r] = "acquiring"]
  /\ call' = [call EXCEPT ![r] = FreshCall]
  /\ attempts' = [attempts EXCEPT ![r] = @ + 1]
  /\ settled' = [settled EXCEPT ![r] = Pending]

\* withClient(pool, fn, timeout) called directly (nodes, testConnection, API users)
StartWithClient(r, t) ==
  /\ kind' = [kind EXCEPT ![r] = "withClient"]
  /\ timeout' = [timeout EXCEPT ![r] = t]
  /\ BeginWithClient(r)
  /\ UNCHANGED <<poolMax, held, maxRetries, maxRetriesType, retryDelay, attempt, lastError,
                 result, waits, lastRaised, allTransient>>

CallWithClient(r, t) ==
  /\ pc[r] = "idle"
  /\ StartWithClient(r, t)
  /\ UNCHANGED <<node, nodeVars, utilVars, configVars, sessionVars>>

\* the pool hands a client to the oldest waiting connect() while fewer than
\* max are checked out; withClient goes on to SET statement_timeout or to fn
PoolConnectResolves(r) ==
  /\ pendingQueue # <<>>
  /\ r = Head(pendingQueue)
  /\ pc[r] = "acquiring"
  /\ CheckedOut < poolMax
  /\ \E c \in 1..poolMax :
       /\ \A q \in Reqs : client[q] # c
       /\ client' = [client EXCEPT ![r] = c]
  /\ pendingQueue' = Tail(pendingQueue)
  /\ held' = [held EXCEPT ![r] = @ + 1]
  /\ IF TimeoutApplies(timeout[r])
       THEN /\ pc' = [pc EXCEPT ![r] = "settingTimeout"]
            /\ call' = [call EXCEPT ![r].connected = TRUE]
       ELSE /\ pc' = [pc EXCEPT ![r] = "running"]
            /\ call' = [call EXCEPT ![r].connected = TRUE, ![r].fnRuns = @ + 1]
  /\ UNCHANGED <<poolMax, node, kind, timeout, maxRetries, maxRetriesType, retryDelay, attempt,
                 lastError, settled, result, attempts, waits, lastRaised,
                 allTransient, nodeVars, utilVars, configVars, statementTimeout>>

\* withClient leaves through exit with outcome out: the finally block runs
\* before the promise of withClient settles
WithClientExit(r, exit, out) ==
  /\ held' = [held EXCEPT ![r] = @ - FinallyReleases(exit)]
  /\ client' = [client EXCEPT ![r] = IF FinallyReleases(exit) > 0 THEN 0 ELSE @]
  /\ call' = [call EXCEPT ![r].releases = @ + FinallyReleases(exit),
                          ![r].setFailed = (exit = "setRejected")]
  /\ settled' = [settled EXCEPT ![r] = out]
  /\ pc' = [pc EXCEPT ![r] = "settled"]
  /\ lastRaised' = [lastRaised EXCEPT ![r] = IF out.ok THEN @ ELSE out.err]
  /\ allTransient' = [allTransient EXCEPT ![r] = @ /\ (out.ok \/ ListedTransient(out.err))]

\* pool.connect() rejects (host unreachable, too many clients, ...)
PoolConnectRejects(r, e) ==
  /\ pc[r] = "acquiring"
  /\ \E i \in 1..Len(pendingQueue) : pendingQueue[i] = r
  /\ pendingQueue' = SelectSeq(pendingQueue, LAMBDA x : x # r)
  /\ WithClientExit(r, "connectRejected", Rejected(Raised(e, attempt[r])))
  /\ UNCHANGED <<poolMax, node, kind, timeout, maxRetries, maxRetriesType, retryDelay, attempt,
                 lastError, result, attempts, waits, nodeVars, utilVars, configVars, statementTimeout>>

\* SET statement_timeout = Math.floor(timeout) succeeded (timeouts are whole
\* milliseconds here): the setting stays with the session; return await
\* fn(client) starts fn
SetTimeoutResolves(r) ==
  /\ pc[r] = "settingTimeout"
  /\ statementTimeout' = [statementTimeout EXCEPT ![client[r]] = timeout[r]]
  /\ pc' = [pc EXCEPT ![r] = "running"]
  /\ call' = [call EXCEPT ![r].fnRuns = @ + 1]
  /\ UNCHANGED <<poolVars, node, kind, timeout, maxRetries, maxRetriesType, retryDelay, attempt,
                 lastError, settled, result, attempts, waits, lastRaised,
                 allTransient, nodeVars, utilVars, configVars, client>>

\* SET statement_timeout failed: fn is skipped, finally releases
SetTimeoutRejects(r, e) ==
  /\ pc[r] = "settingTimeout"
  /\ WithClientExit(r, "setRejected", Rejected(Raised(e, attempt[r])))
  /\ UNCHANGED <<poolMax, pendingQueue, node, kind, timeout, maxRetries, maxRetriesType, retryDelay,
                 attempt, lastError, result, attempts, waits, nodeVars, utilVars, configVars, statementTimeout>>

\* fn(client) resolved
FnResolves(r) ==
  /\ pc[r] = "running"
  /\ WithClientExit(r, "fnResolved", Fulfilled(attempt[r]))
  /\ UNCHANGED <<poolMax, pendingQueue, node, kind, timeout, maxRetries, maxRetriesType, retryDelay,
                 attempt, lastError, result, attempts, waits, nodeVars, utilVars, configVars, statementTimeout>>

\* fn(client) rejected or threw
FnRejects(r, e) ==
  /\ pc[r] = "running"
  /\ WithClientExit(r, "fnRejected", Rejected(Raised(e, attempt[r])))
  /\ UNCHANGED <<poolMax, pendingQueue, node, kind, timeout, maxRetries, maxRetriesType, retryDelay,
                 attempt, lastError, result, attempts, waits, nodeVars, utilVars, configVars, statementTimeout>>

\* the direct caller of withClient resumes with the result or the error
WithClientSettles(r) ==
  /\ pc[r] = "settled"
  /\ kind[r] = "withClient"
  /\ result' = [result EXCEPT ![r] = settled[r]]
  /\ pc' = [pc EXCEPT ![r] = IF settled[r].ok THEN "succeeded" ELSE "failed"]
  /\ UNCHANGED <<poolVars, node, kind, timeout, maxRetries, maxRetriesType, retryDelay, attempt,
                 lastError, settled, histVars, nodeVars, utilVars, configVars, sessionVars>>

\* the pool removes a client that sat idle for idleTimeoutMillis; the next
\* connect() served from that slot opens a new session, with the server's
\* default statement_timeout
IdleClientRemoved(c) ==
  /\ c \in 1..poolMax
  /\ \A r \in Reqs : client[r] # c
  /\ statementTimeout[c] # 0
  /\ statementTimeout' = [statementTimeout EXCEPT ![c] = 0]
  /\ UNCHANGED <<poolVars, reqVars, histVars, nodeVars, utilVars, configVars, client>>

(* ---------------------------- testConnection --------------------------- *)
\* testConnection(pool, timeout = 5000): one withClient call running 'SELECT 1'
CallTestConnection(r, t) ==
  /\ pc[r] = "idle"
  /\ kind' = [kind EXCEPT ![r] = "testConnection"]
  /\ timeout' = [timeout EXCEPT ![r] = t]
  /\ BeginWithClient(r)
  /\ UNCHANGED <<poolMax, held, maxRetries, maxRetriesType, retryDelay, attempt, lastError, result,
                 waits, lastRaised, allTransient, node, nodeVars, utilVars,
                 configVars, sessionVars>>

\* a health check that reports true whatever happened
Answer_AlwaysTrue(ok) == "true"

\* try { await withClient(...); return true } catch (err) { return false }
Answer(ok) == IF ok THEN "true" ELSE "false"

\* the await of withClient is over: testConnection resolves
TestConnectionSettles(r) ==
  /\ pc[r] = "settled"
  /\ kind[r] = "testConnection"
  /\ result' = [result EXCEPT ![r] = Resolved(Answer(settled[r].ok))]
  /\ pc' = [pc EXCEPT ![r] = "succeeded"]
  /\ UNCHANGED <<poolVars, node, kind, timeout, maxRetries, maxRetriesType, retryDelay, attempt,
                 lastError, settled, histVars, nodeVars, utilVars, configVars, sessionVars>>

(* ---------------------------- queryWithRetry --------------------------- *)
\* attempt <= maxRetries on any value of maxRetries: false when its number is NaN
LoopTest(a, ty, mr) == ty # "NaN" /\ LoopContinues(a, mr)

\* attempt === maxRetries on any value of maxRetries: false unless it is a number
LastAttemptTest(a, ty, mr) == ty = "number" /\ IsLastAttempt(a, mr)

\* queryWithRetry(pool, sql, params, {timeout, maxRetries, retryDelay}) with
\* maxRetries of type ty: attempt = 0, first trip round the loop
StartQueryWithRetryOf(r, t, ty, mr, rd) ==
  /\ kind' = [kind EXCEPT ![r] = "queryWithRetry"]
  /\ timeout' = [timeout EXCEPT ![r] = t]
  /\ maxRetries' = [maxRetries EXCEPT ![r] = mr]
  /\ maxRetriesType' = [maxRetriesType EXCEPT ![r] = ty]
  /\ retryDelay' = [retryDelay EXCEPT ![r] = rd]
  /\ attempt' = [attempt EXCEPT ![r] = 0]
  /\ IF LoopTest(0, ty, mr)
       THEN /\ BeginWithClient(r)
            /\ UNCHANGED result
       ELSE /\ pc' = [pc EXCEPT ![r] = "failed"]
            /\ result' = [result EXCEPT ![r] = Rejected(lastError[r])]
            /\ UNCHANGED <<pendingQueue, call, attempts, settled>>
  /\ UNCHANGED <<poolMax, held, lastError, waits, lastRaised, allTransient>>

\* queryWithRetry with a number for maxRetries
StartQueryWithRetry(r, t, mr, rd) == StartQueryWithRetryOf(r, t, "number", mr, rd)

CallQueryWithRetry(r, t, mr, rd) ==
  /\ pc[r] = "idle"
  /\ StartQueryWithRetry(r, t, mr, rd)
  /\ UNCHANGED <<node, nodeVars, utilVars, configVars, sessionVars>>

\* queryWithRetry called with any value for maxRetries
CallQueryWithRetryOf(r, t, ty, mr, rd) ==
  /\ pc[r] = "idle"
  /\ StartQueryWithRetryOf(r, t, ty, mr, rd)
  /\ UNCHANGED <<node, nodeVars, utilVars, configVars, sessionVars>>

\* return await withClient(...): the attempt succeeded
RetryReturns(r) ==
  /\ pc[r] = "settled"
  /\ kind[r] = "queryWithRetry"
  /\ settled[r].ok
  /\ result' = [result EXCEPT ![r] = settled[r]]
  /\ pc' = [pc EXCEPT ![r] = "succeeded"]
  /\ UNCHANGED <<poolVars, node, kind, timeout, maxRetries, maxRetriesType, retryDelay, attempt,
                 lastError, settled, histVars, nodeVars, utilVars, configVars, sessionVars>>

\* catch (err): classify, then rethrow or start the backoff timer
RetryCatch(r) ==
  /\ pc[r] = "settled"
  /\ kind[r] = "queryWithRetry"
  /\ ~settled[r].ok
  /\ lastError' = [lastError EXCEPT ![r] = settled[r].err]
  /\ IF ~isRetryable(settled[r].err)
          \/ LastAttemptTest(attempt[r], maxRetriesType[r], maxRetries[r])
       THEN /\ pc' = [pc EXCEPT ![r] = "failed"]
            /\ result' = [result EXCEPT ![r] = Rejected(Thrown(settled[r].err, lastError[r]))]
            /\ UNCHANGED waits
       ELSE /\ pc' = [pc EXCEPT ![r] = "backoff"]
            /\ waits' = [waits EXCEPT ![r] = Append(@, delay(retryDelay[r], attempt[r]))]
            /\ UNCHANGED result
  /\ UNCHANGED <<poolVars, node, kind, timeout, maxRetries, maxRetriesType, retryDelay, attempt,
                 settled, attempts, call, lastRaised, allTransient, nodeVars, utilVars, configVars, sessionVars>>

\* the backoff timer fires: attempt++, loop test, next withClient call
BackoffTimerFires(r) ==
  /\ pc[r] = "backoff"
  /\ attempt' = [attempt EXCEPT ![r] = @ + 1]
  /\ IF LoopTest(attempt[r] + 1, maxRetriesType[r], maxRetries[r])
       THEN /\ BeginWithClient(r)
            /\ UNCHANGED result
       ELSE /\ pc' = [pc EXCEPT ![r] = "failed"]
            /\ result' = [result EXCEPT ![r] = Rejected(lastError[r])]
            /\ UNCHANGED <<pendingQueue, call, attempts, settled>>
  /\ UNCHANGED <<poolMax, held, node, kind, timeout, maxRetries, maxRetriesType, retryDelay,
                 lastError, waits, lastRaised, allTransient, nodeVars, utilVars, configVars, sessionVars>>

(* ----------------------- lib/vector-utils.js ---------------------------- *)
\* JavaScript values: null, undefined, a number (num counts halves, so that
\* 0.5 and 2.5 are values), NaN, +Infinity and -Infinity (num is the sign), a
\* finite number that is no multiple of 0.5 below 128, a string (one
\* character per element of chars), an array (its elements in elems) and any
\* other object
Value(t, es, cs, n) == [type |-> t, elems |-> es, chars |-> cs, num |-> n]
NullValue == Value("null", <<>>, <<>>, 0)
UndefinedValue == Value("undefined", <<>>, <<>>, 0)
ObjectValue == Value("object", <<>>, <<>>, 0)
NumberValue(h) == Value("number", <<>>, <<>>, h)
NaNValue == Value("NaN", <<>>, <<>>, 0)
InfinityValue(sign) == Value("Infinity", <<>>, <<>>, sign)
OtherFinite == Value("finite", <<>>, <<>>, 0)
StringValue(chars) == Value("string", <<>>, chars, 0)
JsArray(es) == Value("array", es, <<>>, 0)

\* Number.isFinite(x)
IsFinite(x) == x.type \in {"number", "finite"}

\* the array [1, ..., 1] of n numbers
ArrayValue(n) == JsArray([i \in 1..n |-> NumberValue(2)])

\* the string '1,...,1' of n numbers
RECURSIVE CsvChars(_)
CsvChars(n) == IF n = 1 THEN <<"1">> ELSE CsvChars(n - 1) \o <<",", "1">>
CsvValue(n) == StringValue(CsvChars(n))

\* the string 'x', which is in none of the supported formats
TextValue == StringValue(<<"x">>)

\* new Error(message); actual and expected are the numbers the message names
ErrorOf(m) == [message |-> m, actual |-> 0, expected |-> 0]
NoError == ErrorOf("")

\* what a call gives back: a value, or an exception
Returns(v) == [threw |-> FALSE, val |-> v, err |-> NoError]
Thrower(e) == [threw |-> TRUE, val |-> NullValue, err |-> e]
Throws == Thrower(ErrorOf("Unsupported vector format"))

Digits == <<"0", "1", "2", "3", "4", "5", "6", "7", "8", "9">>
IsDigit(c) == \E d \in 1..10 : Digits[d] = c
DigitOf(c) == (CHOOSE d \in 1..10 : Digits[d] = c) - 1
Abs(n) == IF n < 0 THEN -n ELSE n

\* String.prototype.trim (the only white space in the strings here is ' ')
RECURSIVE TrimStart(_)
TrimStart(cs) == IF cs # <<>> /\ Head(cs) = " " THEN TrimStart(Tail(cs)) ELSE cs
RECURSIVE TrimEnd(_)
TrimEnd(cs) ==
  IF cs # <<>> /\ cs[Len(cs)] = " " THEN TrimEnd(SubSeq(cs, 1, Len(cs) - 1)) ELSE cs
Trim(cs) == TrimEnd(TrimStart(cs))

\* String.prototype.split(','): the pieces between the commas
RECURSIVE Split(_)
Split(cs) ==
  IF \A i \in 1..Len(cs) : cs[i] # "," THEN <<cs>>
  ELSE LET i == CHOOSE j \in 1..Len(cs) :
                  cs[j] = "," /\ \A k \in 1..(j - 1) : cs[k] # ","
       IN <<SubSeq(cs, 1, i - 1)>> \o Split(SubSeq(cs, i + 1, Len(cs)))

\* the value of a run of decimal digits
RECURSIVE DecimalValue(_)
DecimalValue(ds) ==
  IF ds = <<>> THEN 0
  ELSE 10 * DecimalValue(SubSeq(ds, 1, Len(ds) - 1)) + DigitOf(ds[Len(ds)])

AllDigits(cs) == \A i \in 1..Len(cs) : IsDigit(cs[i])
AllZeros(cs) == \A i \in 1..Len(cs) : cs[i] = "0"

\* digits, or digits '.' digits, with at least one digit
IsDecimalLiteral(cs) ==
  LET dots == {i \in 1..Len(cs) : cs[i] = "."}
  IN /\ Len(cs) > Cardinality(dots)
     /\ Cardinality(dots) <= 1
     /\ \A i \in 1..Len(cs) : IsDigit(cs[i]) \/ cs[i] = "."

\* the number a decimal literal stands for, with its sign (1 or -1)
DecimalNumber(cs, sign) ==
  LET dots == {i \in 1..Len(cs) : cs[i] = "."}
      dot == IF dots = {} THEN Len(cs) + 1 ELSE CHOOSE i \in dots : TRUE
      whole == DecimalValue(SubSeq(cs, 1, dot - 1))
      frac == SubSeq(cs, dot + 1, Len(cs))
  IN IF AllZeros(frac) THEN NumberValue(sign * 2 * whole)
     ELSE IF Head(frac) = "5" /\ AllZeros(Tail(frac)) THEN NumberValue(sign * (2 * whole + 1))
     ELSE OtherFinite

InfinityChars == <<"I", "n", "f", "i", "n", "i", "t", "y">>

\* Number(string): StringToNumber of ECMAScript on strings without exponents
\* and without 0x, 0o, 0b prefixes
StringToNumber(chars) ==
  LET t == Trim(chars)
      signed == t # <<>> /\ Head(t) \in {"+", "-"}
      sign == IF t # <<>> /\ Head(t) = "-" THEN -1 ELSE 1
      body == IF signed THEN Tail(t) ELSE t
  IN IF t = <<>> THEN NumberValue(0)
     ELSE IF body = InfinityChars THEN InfinityValue(sign)
     ELSE IF IsDecimalLiteral(body) THEN DecimalNumber(body, sign)
     ELSE NaNValue

\* Number(value); an array goes through its string, which for one element is
\* the element's string and for more contains a comma
RECURSIVE ToNumber(_)
ToNumber(x) ==
  CASE x.type \in {"number", "NaN", "Infinity", "finite"} -> x
    [] x.type = "string" -> StringToNumber(x.chars)
    [] x.type = "null" -> NumberValue(0)
    [] x.type = "array" /\ Len(x.elems) = 0 -> NumberValue(0)
    [] x.type = "array" /\ Len(x.elems) = 1 ->
         IF x.elems[1].type \in {"null", "undefined"} THEN NumberValue(0)
         ELSE ToNumber(x.elems[1])
    [] OTHER -> NaNValue

\* array.map(Number)
MapNumber(es) == [i \in 1..Len(es) |-> ToNumber(es[i])]

\* array.filter(Number.isFinite)
RECURSIVE FilterFinite(_)
FilterFinite(es) ==
  IF es = <<>> THEN <<>>
  ELSE (IF IsFinite(Head(es)) THEN <<Head(es)>> ELSE <<>>) \o FilterFinite(Tail(es))

\* JSON.parse on the text of one array element: a number (no leading '+', no
\* leading zeros, digits on both sides of a '.'), a string without escapes,
\* null; "invalid" for any other text (arrays and objects as elements are
\* not among the strings given here)
IsJsonNumber(cs) ==
  LET body == IF cs # <<>> /\ Head(cs) = "-" THEN Tail(cs) ELSE cs
      dots == {i \in 1..Len(body) : body[i] = "."}
      dot == IF dots = {} THEN Len(body) + 1 ELSE CHOOSE i \in dots : TRUE
  IN /\ IsDecimalLiteral(body)
     /\ dot > 1
     /\ dot # Len(body)
     /\ dot > 2 => body[1] # "0"

IsJsonString(cs) ==
  /\ Len(cs) >= 2
  /\ cs[1] = "\""
  /\ cs[Len(cs)] = "\""
  /\ \A i \in 2..(Len(cs) - 1) : cs[i] \notin {"\"", "\\"}

NullChars == <<"n", "u", "l", "l">>
Invalid == Value("invalid", <<>>, <<>>, 0)

JsonElement(cs) ==
  IF IsJsonNumber(cs)
    THEN DecimalNumber(IF Head(cs) = "-" THEN Tail(cs) ELSE cs, IF Head(cs) = "-" THEN -1 ELSE 1)
  ELSE IF IsJsonString(cs) THEN StringValue(SubSeq(cs, 2, Len(cs) - 1))
  ELSE IF cs = NullChars THEN NullValue
  ELSE Invalid

\* JSON.parse(trimmed) on a string that starts with '[': the array, or
\* Invalid where JSON.parse throws
JsonParse(t) ==
  LET inner == Trim(SubSeq(t, 2, Len(t) - 1))
      parts == Split(inner)
      es == [i \in 1..Len(parts) |-> JsonElement(Trim(parts[i]))]
  IN IF Len(t) < 2 \/ t[Len(t)] # "]" THEN Invalid
     ELSE IF inner = <<>> THEN JsArray(<<>>)
     ELSE IF \E i \in 1..Len(es) : es[i] = Invalid THEN Invalid
     ELSE JsArray(es)

\* the base64 alphabet, in the order of the values 0..63
Base64Table ==
  <<"A", "B", "C", "D", "E", "F", "G", "H", "I", "J", "K", "L", "M", "N", "O", "P",
    "Q", "R", "S", "T", "U", "V", "W", "X", "Y", "Z", "a", "b", "c", "d", "e", "f",
    "g", "h", "i", "j", "k", "l", "m", "n", "o", "p", "q", "r", "s", "t", "u", "v",
    "w", "x", "y", "z", "0", "1", "2", "3", "4", "5", "6", "7", "8", "9", "+", "/">>
Base64Index(c) == (CHOOSE i \in 1..64 : Base64Table[i] = c) - 1

\* BASE64_REGEX.test(trimmed)
MatchesBase64(cs) ==
  cs # <<>> /\ \A i \in 1..Len(cs) : cs[i] = "=" \/ \E k \in 1..64 : Base64Table[k] = cs[i]

\* Buffer.from(trimmed, 'base64') on a string whose '=' are at its end: the
\* bytes of each group of four characters
Base64Group(g) ==
  LET n == Cardinality({i \in 1..4 : g[i] # "="})
      v(i) == IF g[i] = "=" THEN 0 ELSE Base64Index(g[i])
      bits == ((v(1) * 64 + v(2)) * 64 + v(3)) * 64 + v(4)
      bytes == <<bits \div 65536, (bits \div 256) % 256, bits % 256>>
  IN SubSeq(bytes, 1, IF n = 4 THEN 3 ELSE IF n = 3 THEN 2 ELSE IF n = 2 THEN 1 ELSE 0)

RECURSIVE Base64Decode(_)
Base64Decode(cs) ==
  IF Len(cs) < 4 THEN <<>>
  ELSE Base64Group(SubSeq(cs, 1, 4)) \o Base64Decode(SubSeq(cs, 5, Len(cs)))

\* the IEEE 754 single with most significant byte hi and least significant lo
Single(hi, b3, b2, lo) ==
  LET sign == IF hi >= 128 THEN -1 ELSE 1
      exp == (hi % 128) * 2 + (b3 \div 128)
      frac == ((b3 % 128) * 256 + b2) * 256 + lo
      mant == 8388608 + frac
      e == exp - 127
  IN IF exp = 255 THEN (IF frac = 0 THEN InfinityValue(sign) ELSE NaNValue)
     ELSE IF exp = 0 THEN (IF frac = 0 THEN NumberValue(0) ELSE OtherFinite)
     ELSE IF e > 6 \/ e < -1 THEN OtherFinite
     ELSE IF mant % Pow2(22 - e) # 0 THEN OtherFinite
     ELSE NumberValue(sign * (mant \div Pow2(22 - e)))

\* a reading of the four bytes with the most significant byte first
Float32Of_BigEndian(b) == Single(b[1], b[2], b[3], b[4])

\* one element of new Float32Array(buf.buffer, ...): four bytes in the byte
\* order of the machine, least significant byte first
Float32Of(b) == Single(b[4], b[3], b[2], b[1])

\* Array.from(new Float32Array(buf.buffer, buf.byteOffset, buf.byteLength / 4))
Float32Array(bytes) ==
  [i \in 1..(Len(bytes) \div 4) |-> Float32Of(SubSeq(bytes, 4 * i - 3, 4 * i))]

\* trimmed.includes(',')
IncludesComma(t) == \E i \in 1..Len(t) : t[i] = ","

\* an order in which a string with a comma is never tried as JSON
StartsWithBracket_AfterCsv(t) == t # <<>> /\ Head(t) = "[" /\ ~IncludesComma(t)

\* trimmed.startsWith('['), the first test made on a string
StartsWithBracket(t) == t # <<>> /\ Head(t) = "["

\* parseVector(input)
parseVector(x) ==
  IF x.type \in {"null", "undefined"} THEN Returns(NullValue)
  ELSE IF x.type = "array" THEN Returns(JsArray(MapNumber(x.elems)))
  ELSE IF x.type # "string" THEN Throws
  ELSE LET trimmed == Trim(x.chars)
       IN IF StartsWithBracket(trimmed) /\ JsonParse(trimmed) # Invalid
            THEN Returns(JsArray(MapNumber(JsonParse(trimmed).elems)))
          ELSE IF IncludesComma(trimmed)
            THEN Returns(JsArray(FilterFinite(
                   [i \in 1..Len(Split(trimmed)) |-> StringToNumber(Trim(Split(trimmed)[i]))])))
          ELSE IF /\ MatchesBase64(trimmed)
                  /\ Len(trimmed) % 4 = 0
                  /\ Len(Base64Decode(trimmed)) % 4 = 0
            THEN Returns(JsArray(Float32Array(Base64Decode(trimmed))))
          ELSE Throws

\* a message that names the expected length only
DimensionError_ExpectedOnly(actual, expected) ==
  [message |-> "Vector dimension does not match expected",
   actual |-> 0, expected |-> expected]

\* new Error(`Vector dimension ${vec.length} does not match expected ${expected}`)
DimensionError(actual, expected) ==
  [message |-> "Vector dimension does not match expected",
   actual |-> actual, expected |-> expected]

\* a check that lets every value that is no array pass
validateDimension_ArraysOnly(vec, expected) ==
  IF expected = 0 \/ vec.type # "array" THEN Returns(vec)
  ELSE IF Len(vec.elems) # expected THEN Thrower(DimensionError(Len(vec.elems), expected))
  ELSE Returns(vec)

\* validateDimension(vec, expected); expected = 0 stands for every falsy value
validateDimension(vec, expected) ==
  IF expected = 0 THEN Returns(vec)
  ELSE IF vec.type # "array" THEN Thrower(ErrorOf("Vector is not an array"))
  ELSE IF Len(vec.elems) # expected THEN Thrower(DimensionError(Len(vec.elems), expected))
  ELSE Returns(vec)

\* escapeIdentifier throws on an empty or non-string name ("missing", "notstring")
escapeIdentifierThrows(name) == name # "ok"

\* characters of names: lower-case letters, an upper-case letter, a digit,
\* the two signs an unquoted identifier may hold, and signs it may not
LowerChars == {"a", "s", "i", "d", "x"}
DigitChars == {"1"}
NameChars == {"a", "s"} \cup DigitChars \cup {"U", "_", "$", "\"", ";", " ", "-", "."}

\* pg-format: /^[a-z_][a-z0-9_$]*$/.test(ident)
IsPlainIdent(ident) ==
  /\ Len(ident) > 0
  /\ ident[1] \in LowerChars \cup {"_"}
  /\ \A i \in 1..Len(ident) : ident[i] \in LowerChars \cup DigitChars \cup {"_", "$"}

\* pg-format: isReserved(ident), for the reserved words these characters spell
IsReserved(ident) == ident \in {<<"a", "s">>}

\* a quoting that leaves the quotes inside the name alone
QuoteChar_None(c) == <<c>>

\* pg-format: a '"' of the name is written twice
QuoteChar(c) == IF c = "\"" THEN <<"\"", "\"">> ELSE <<c>>

\* pg-format: value.replace(/"/g, '""')
RECURSIVE DoubleQuotes(_)
DoubleQuotes(ident) ==
  IF ident = <<>> THEN <<>>
  ELSE QuoteChar(Head(ident)) \o DoubleQuotes(Tail(ident))

\* pg-format: format.ident(value) on a string
formatIdent(ident) ==
  IF IsPlainIdent(ident) /\ ~IsReserved(ident) THEN ident
  ELSE <<"\"">> \o DoubleQuotes(ident) \o <<"\"">>

\* escapeIdentifier(identifier) on a JavaScript value
escapeIdentifier(identifier) ==
  IF identifier.type # "string" \/ identifier.chars = <<>>
    THEN Thrower(ErrorOf("Invalid identifier: must be a non-empty string"))
    ELSE Returns(StringValue(formatIdent(identifier.chars)))

\* String(number), as a template literal writes a number
RECURSIVE Decimal(_)
Decimal(n) == IF n < 10 THEN <<Digits[n + 1]>> ELSE Decimal(n \div 10) \o <<Digits[(n % 10) + 1]>>
NumberToString(x) ==
  CASE x.type = "NaN" -> <<"N", "a", "N">>
    [] x.type = "Infinity" -> (IF x.num < 0 THEN <<"-">> ELSE <<>>) \o InfinityChars
    [] x.type = "number" ->
         (IF x.num < 0 THEN <<"-">> ELSE <<>>) \o Decimal(Abs(x.num) \div 2)
           \o (IF x.num % 2 = 1 THEN <<".", "5">> ELSE <<>>)
    [] OTHER -> <<"?">>

\* array.join(sep) on strings
RECURSIVE Join(_, _)
Join(parts, sep) ==
  IF parts = <<>> THEN <<>>
  ELSE IF Len(parts) = 1 THEN parts[1]
  ELSE parts[1] \o sep \o Join(Tail(parts), sep)

\* a test that takes a hyphen for a word character
IsWordPath_WithHyphen(cs) ==
  cs # <<>> /\ \A i \in 1..Len(cs) :
    cs[i] \in {"a", "s", "i", "d", "U", "A", "S", "_", ".", "-", "1"}

\* /^[\w.]+$/.test(trimmed)
WordChars == {"a", "s", "i", "d", "U", "A", "S", "_", "."} \cup {Digits[d] : d \in 1..10}
IsWordPath(cs) == cs # <<>> /\ \A i \in 1..Len(cs) : cs[i] \in WordChars

\* trimmed.match(/^(.*)\s+as\s+([\w.]+)$/i): the place of the white space
\* before 'as' when the part ends in ' as <alias>', 0 when it does not
AsMatch(t) ==
  LET starts == {i \in 1..Len(t) : \A j \in i..Len(t) : t[j] \in WordChars}
      alias == IF starts = {} THEN Len(t) + 1
               ELSE CHOOSE i \in starts : \A j \in starts : i <= j
      before == TrimEnd(SubSeq(t, 1, alias - 1))
      n == Len(before)
  IN IF /\ alias <= Len(t)
        /\ alias > 1
        /\ t[alias - 1] = " "
        /\ n >= 3
        /\ before[n - 1] \in {"a", "A"}
        /\ before[n] \in {"s", "S"}
        /\ before[n - 2] = " "
       THEN n - 2 ELSE 0

\* the alias of a part that ends in ' as <alias>'
AliasOf(t) ==
  LET starts == {i \in 1..Len(t) : \A j \in i..Len(t) : t[j] \in WordChars}
  IN SubSeq(t, CHOOSE i \in starts : \A j \in starts : i <= j, Len(t))

\* one part of the select clause: what map((part) => ...) returns for it
SelectPart(part) ==
  LET trimmed == Trim(part)
  IN IF trimmed = <<"*">> THEN Returns(StringValue(<<"*">>))
     ELSE IF AsMatch(trimmed) # 0
       THEN LET alias == escapeIdentifier(StringValue(AliasOf(trimmed)))
            IN IF alias.threw THEN alias
               ELSE Returns(StringValue(Trim(SubSeq(trimmed, 1, AsMatch(trimmed)))
                                          \o <<" ", "A", "S", " ">> \o alias.val.chars))
     ELSE IF IsWordPath(trimmed) THEN escapeIdentifier(StringValue(trimmed))
     ELSE Returns(StringValue(trimmed))

\* escapeSelectClause(selectClause)
escapeSelectClause(selectClause) ==
  IF selectClause.type # "string" \/ selectClause.chars = <<>>
       \/ Trim(selectClause.chars) = <<"*">>
    THEN Returns(StringValue(<<"*">>))
  ELSE LET parts == Split(selectClause.chars)
           done == [i \in 1..Len(parts) |-> SelectPart(parts[i])]
       IN IF \E i \in 1..Len(done) : done[i].threw
            THEN done[CHOOSE i \in 1..Len(done) :
                        done[i].threw /\ \A j \in 1..(i - 1) : ~done[j].threw]
          ELSE Returns(StringValue(Join([i \in 1..Len(done) |-> done[i].val.chars],
                                        <<",", " ">>)))

\* the metrics: the own keys of METRIC_OPERATORS, 'constructor' (a key its
\* prototype has), a name that is no key at all, and no metric
MetricNames == {"cosine", "l2", "inner-product", "ip", "constructor", "euclidean", "absent"}

\* the text a template literal writes for Object.prototype.constructor
ConstructorText == <<"f", "u", "n", "c", "t", "i", "o", "n", " ", "O", "b", "j", "e", "c", "t", "(", ")", " ", "{", " ", "[", "n", "a", "t", "i", "v", "e", " ", "c", "o", "d", "e", "]", " ", "}">>

\* METRIC_OPERATORS[metric] for a metric that is no own key: what the
\* prototype chain of the frozen object literal gives, or else
\* METRIC_OPERATORS.cosine
Inherited(metric) ==
  IF metric = "constructor" THEN ConstructorText ELSE <<"<", "=", ">">>

\* const op = METRIC_OPERATORS[metric] || METRIC_OPERATORS.cosine, with the
\* default metric = 'cosine', as the template literal writes it
METRIC_OPERATORS(metric) ==
  CASE metric \in {"cosine", "absent"} -> <<"<", "=", ">">>
    [] metric = "l2" -> <<"<", "-", ">">>
    [] metric \in {"inner-product", "ip"} -> <<"<", "#", ">">>
    [] OTHER -> Inherited(metric)

MAX_LIMIT == 10000
DEFAULT_LIMIT == 10

\* Math.max(1, Math.min(Number(limit) || DEFAULT_LIMIT, MAX_LIMIT)), with the
\* default limit = DEFAULT_LIMIT
safeLimit(limit) ==
  LET n == IF limit.type = "undefined" THEN NumberValue(2 * DEFAULT_LIMIT) ELSE ToNumber(limit)
      m == IF n.type = "NaN" \/ (n.type = "number" /\ n.num = 0)
             THEN NumberValue(2 * DEFAULT_LIMIT) ELSE n
      lo == CASE m.type = "Infinity" /\ m.num > 0 -> NumberValue(2 * MAX_LIMIT)
              [] m.type = "Infinity" -> m
              [] m.type = "finite" -> m
              [] OTHER -> (IF m.num > 2 * MAX_LIMIT THEN NumberValue(2 * MAX_LIMIT) ELSE m)
  IN CASE lo.type = "Infinity" -> NumberValue(2)
       [] lo.type = "finite" -> lo
       [] OTHER -> (IF lo.num < 2 THEN NumberValue(2) ELSE lo)

\* vectorLiteral(vec) on an array of numbers: toSql of the pgvector package
\* writes JSON.stringify(vec.map(Number))
vectorLiteral(vec) ==
  <<"[">> \o Join([i \in 1..Len(vec.elems) |-> NumberToString(ToNumber(vec.elems[i]))], <<",">>)
    \o <<"]">>

\* a numbering that reads params.length before the push
PlaceholderNumber_BeforePush(i) == i

\* params.length after the push of the i-th filter value
PlaceholderNumber(i) == 1 + i

\* a builder that writes the vector itself into the text
VectorInText_Literal(vec) == <<"'">> \o vectorLiteral(vec) \o <<"'">>

\* what the text holds for the query vector: the placeholder $1
VectorInText(vec) == <<"$", "1">>

\* the entries of the filter as WHERE parts: `${escapeIdentifier(key)} = $${params.length}`
FilterParts(filter) ==
  [i \in 1..Len(filter) |->
     LET key == escapeIdentifier(StringValue(filter[i].key))
     IN IF key.threw THEN key
        ELSE Returns(StringValue(key.val.chars \o <<" ", "=", " ", "$">>
                                   \o Decimal(PlaceholderNumber(i))))]

QueryOf(sql, params) == [threw |-> FALSE, sql |-> sql, params |-> params, err |-> NoError]
QueryThrows(e) == [threw |-> TRUE, sql |-> <<>>, params |-> <<>>, err |-> e]

\* a clause that writes the keyword even when there are no parts
whereClause_Always(whereParts) ==
  <<"W", "H", "E", "R", "E", " ">> \o Join(whereParts, <<" ", "A", "N", "D", " ">>)

\* whereParts.length > 0 ? `WHERE ${whereParts.join(' AND ')}` : ''
whereClause(whereParts) ==
  IF Len(whereParts) > 0
    THEN <<"W", "H", "E", "R", "E", " ">> \o Join(whereParts, <<" ", "A", "N", "D", " ">>)
    ELSE <<>>

\* buildSimilarityQuery(spec); filter is the sequence Object.entries(filter)
buildSimilarityQuery(spec) ==
  LET safeTable == escapeIdentifier(spec.table)
      safeColumn == escapeIdentifier(spec.column)
      safeSelect == escapeSelectClause(IF spec.select.type = "undefined"
                                         THEN StringValue(<<"*">>) ELSE spec.select)
      op == METRIC_OPERATORS(spec.metric)
      filterParts == FilterParts(spec.filter)
      params == <<StringValue(vectorLiteral(spec.vector))>>
                  \o [i \in 1..Len(spec.filter) |-> spec.filter[i].val]
      whereParts == [i \in 1..Len(filterParts) |-> filterParts[i].val.chars]
                      \o (IF spec.whereSql.type = "string" /\ spec.whereSql.chars # <<>>
                            THEN <<(<<"(">> \o spec.whereSql.chars \o <<")">>)>> ELSE <<>>)
  IN IF spec.table.type \in {"null", "undefined"} \/ spec.column.type \in {"null", "undefined"}
          \/ StringValue(<<>>) \in {spec.table, spec.column}
       THEN QueryThrows(ErrorOf("table and column are required"))
     ELSE IF safeTable.threw THEN QueryThrows(safeTable.err)
     ELSE IF safeColumn.threw THEN QueryThrows(safeColumn.err)
     ELSE IF safeSelect.threw THEN QueryThrows(safeSelect.err)
     ELSE IF \E i \in 1..Len(filterParts) : filterParts[i].threw
       THEN QueryThrows(ErrorOf("Invalid identifier: must be a non-empty string"))
     ELSE QueryOf(<<"S", "E", "L", "E", "C", "T", " ">> \o safeSelect.val.chars \o <<",", " ">> \o safeColumn.val.chars
                    \o <<" ">> \o op \o <<" ">> \o VectorInText(spec.vector)
                    \o <<" ", "A", "S", " ", "s", "i", "m", "i", "l", "a", "r", "i", "t", "y", " ", "F", "R", "O", "M", " ">> \o safeTable.val.chars \o <<" ">> \o whereClause(whereParts)
                    \o <<" ", "O", "R", "D", "E", "R", " ", "B", "Y", " ", "s", "i", "m", "i", "l", "a", "r", "i", "t", "y", " ", "A", "S", "C", " ", "L", "I", "M", "I", "T", " ">> \o NumberToString(safeLimit(spec.limit)),
                  params)

\* the try block of the insert node's input handler up to its await: the
\* statement text sql and the parameters flatParams. A record is its vector
\* and the entries of its other fields in key order
FieldOf(r, key) ==
  IF \E j \in 1..Len(r.fields) : r.fields[j].key = key
    THEN r.fields[CHOOSE j \in 1..Len(r.fields) : r.fields[j].key = key].val
    ELSE UndefinedValue

\* rowValues of record r: [vectorLiteral(rowVec)] followed by r[fields[j]]
RowValues(r, fields) ==
  <<StringValue(vectorLiteral(parseVector(r.vector).val))>>
    \o [j \in 1..Len(fields) |-> FieldOf(r, fields[j].key)]

\* valueRows.flat(): one level is flattened, so the values of each row take
\* the row's place and a value that is itself an array stays one value
RECURSIVE Flat(_)
Flat(rows) == IF rows = <<>> THEN <<>> ELSE Head(rows) \o Flat(Tail(rows))

\* `(${placeholders.join(', ')})` of row rowIdx (from 0)
RowPlaceholders(rowIdx, columnsPerRow) ==
  <<"(">> \o Join([i \in 1..columnsPerRow |->
                     <<"$">> \o Decimal(rowIdx * columnsPerRow + (i - 1) + 1)], <<",", " ">>)
    \o <<")">>

\* `${safeColumn}, ${safeFields.join(', ')}`
ColumnList(safeColumn, safeFields) ==
  safeColumn \o <<",", " ">> \o Join(safeFields, <<",", " ">>)

insertStatement(in) ==
  LET safeTable == escapeIdentifier(in.table)
      safeColumn == escapeIdentifier(in.column)
      safeIdColumn == escapeIdentifier(in.idColumn)
      fields == in.records[1].fields
      safeFields == [j \in 1..Len(fields) |-> escapeIdentifier(StringValue(fields[j].key))]
      rowVecs == [i \in 1..Len(in.records) |->
                    IF parseVector(in.records[i].vector).threw
                      THEN parseVector(in.records[i].vector)
                      ELSE validateDimension(parseVector(in.records[i].vector).val,
                                             in.dimension)]
      valueRows == [i \in 1..Len(in.records) |-> RowValues(in.records[i], fields)]
      columnsPerRow == Len(fields) + 1
      valuePlaceholders ==
        Join([i \in 1..Len(valueRows) |-> RowPlaceholders(i - 1, columnsPerRow)], <<",", " ">>)
  IN IF safeTable.threw THEN QueryThrows(safeTable.err)
     ELSE IF safeColumn.threw THEN QueryThrows(safeColumn.err)
     ELSE IF safeIdColumn.threw THEN QueryThrows(safeIdColumn.err)
     ELSE IF \E j \in 1..Len(safeFields) : safeFields[j].threw
       THEN QueryThrows(ErrorOf("Invalid identifier: must be a non-empty string"))
     ELSE IF \E i \in 1..Len(rowVecs) : rowVecs[i].threw
       THEN QueryThrows(rowVecs[CHOOSE i \in 1..Len(rowVecs) :
                                  rowVecs[i].threw /\ \A k \in 1..(i - 1) : ~rowVecs[k].threw].err)
     ELSE QueryOf(<<"I", "N", "S", "E", "R", "T", " ", "I", "N", "T", "O", " ">> \o safeTable.val.chars \o <<" ", "(">>
                    \o ColumnList(safeColumn.val.chars,
                                  [j \in 1..Len(safeFields) |-> safeFields[j].val.chars])
                    \o <<")", " ", "V", "A", "L", "U", "E", "S", " ">> \o valuePlaceholders
                    \o <<" ", "R", "E", "T", "U", "R", "N", "I", "N", "G", " ">> \o safeIdColumn.val.chars,
                  Flat(valueRows))

\* vectorLiteral(vec) = toSql(vec) of the pgvector package: on a value that is
\* no array it throws or passes the value through, depending on the package version
vectorLiteralMayThrow(vec) == IF vec.type = "array" THEN {FALSE} ELSE {FALSE, TRUE}

(* ----------------------------- input handlers -------------------------- *)
\* largest vector length and largest batch a message carries
MaxDim == 2
MaxRecords == 2

VecInputs ==
  {NullValue, ObjectValue, TextValue} \cup {ArrayValue(n) : n \in 0..MaxDim}
    \cup {CsvValue(n) : n \in 2..MaxDim}
IdentInputs == {"missing", "notstring", "ok"}
CfgInputs == {"missing", "nopool", "nocreds", "ok"}
AdminActions == {"create-extension", "create-table", "create-ivfflat", "create-hnsw",
                 "set-probes", "drop-index", "unknown"}
RecordInputs == [vector : VecInputs]
BatchInputs == UNION {[1..n -> RecordInputs] : n \in 0..MaxRecords}

\* a message together with the node's configuration
BaseInput ==
  [node |-> "none", cfg |-> "ok", table |-> "ok", column |-> "ok", idColumn |-> "ok",
   indexName |-> "ok", dimension |-> 0, dimHalves |-> 0, timeoutArg |-> DEFAULT_QUERY_TIMEOUT,
   payloadType |-> "absent", payloadVector |-> NullValue, msgVector |-> NullValue,
   filter |-> "none", records |-> <<>>, badField |-> FALSE, hasPk |-> TRUE, action |-> "none", sql |-> "ok"]

SearchInputs ==
  { in \in { [BaseInput EXCEPT !.node = "search", !.cfg = c, !.table = t, !.column = col,
       !.dimension = d, !.timeoutArg = to, !.payloadType = pt, !.payloadVector = pv,
       !.msgVector = mv, !.filter = f] :
      c \in CfgInputs, t \in IdentInputs, col \in IdentInputs, d \in 0..MaxDim,
      to \in {-1, DEFAULT_QUERY_TIMEOUT}, pt \in {"absent", "array", "string", "object"},
      pv \in VecInputs, mv \in {NullValue, ArrayValue(1)}, f \in {"none", "ok", "badkey"} } :
      /\ in.payloadType = "absent" => in.payloadVector = NullValue
      /\ in.payloadType = "array" => in.payloadVector.type = "array"
      /\ in.payloadType = "string" => in.payloadVector.type = "string" }

\* a message to the insert node; the keys of its first record are bad or not
InsertInput(c, t, col, id, d, pt, rs, bf) ==
  [BaseInput EXCEPT !.node = "insert", !.cfg = c, !.table = t, !.column = col,
     !.idColumn = id, !.dimension = d, !.payloadType = pt, !.records = rs,
     !.badField = bf]

\* msg.payload || msg.record: absent, one record, or an array of records
InsertPayloads(pt) ==
  IF pt = "absent" THEN {<<<<>>, FALSE>>}
  ELSE IF pt = "object" THEN [1..1 -> RecordInputs] \X BOOLEAN
  ELSE {<<<<>>, FALSE>>} \cup ((BatchInputs \ {<<>>}) \X BOOLEAN)

UpsertInputs ==
  { [BaseInput EXCEPT !.node = "upsert", !.cfg = c, !.table = t, !.column = col,
       !.idColumn = id, !.dimension = d, !.payloadType = pt, !.records = rs, !.hasPk = pk,
       !.badField = bf] :
      c \in CfgInputs, t \in IdentInputs, col \in IdentInputs, id \in {"ok", "notstring"},
      d \in 0..MaxDim, pt \in {"absent", "object"}, rs \in [1..1 -> RecordInputs],
      pk \in BOOLEAN, bf \in BOOLEAN }

AdminInputs ==
  { [BaseInput EXCEPT !.node = "admin", !.cfg = c, !.table = t, !.column = col,
       !.indexName = ix, !.dimHalves = h, !.action = a] :
      c \in CfgInputs, t \in IdentInputs, col \in IdentInputs, ix \in {"ok", "notstring"},
      h \in (-2)..(2 * MaxDim), a \in AdminActions }

QueryInputs ==
  { [BaseInput EXCEPT !.node = "query", !.cfg = c, !.sql = q] :
      c \in CfgInputs, q \in {"missing", "ok"} }

SchemaInputs ==
  { [BaseInput EXCEPT !.node = "schema", !.cfg = c, !.table = t] :
      c \in CfgInputs, t \in {"missing", "ok"} }

\* if (!pgConfig || !pgConfig.pool)
NoConfig(in) == in.cfg \in {"missing", "nopool"}

\* if (!pgConfig.user || !pgConfig.password)
NoCredentials(in) == in.cfg = "nocreds"

\* search: let vec = payload.vector || msg.vector || payload, with
\* payload = msg.payload || {}
SearchVec(in) ==
  IF in.payloadType = "object" /\ in.payloadVector.type # "null" THEN in.payloadVector
  ELSE IF in.msgVector.type # "null" THEN in.msgVector
  ELSE IF in.payloadType \in {"array", "string"} THEN in.payloadVector
  ELSE ObjectValue

\* the input handler of pgvector-search up to its first await: the ways it can
\* go ("return": validation failure; "catch": exception inside try; "call")
SearchPaths(in) ==
  IF NoConfig(in) THEN {"return"}
  ELSE IF NoCredentials(in) THEN {"return"}
  ELSE IF in.table = "missing" THEN {"return"}
  ELSE IF in.column = "missing" THEN {"return"}
  ELSE IF SearchVec(in).type = "null" THEN {"return"}
  ELSE IF parseVector(SearchVec(in)).threw THEN {"catch"}
  ELSE IF validateDimension(parseVector(SearchVec(in)).val, in.dimension).threw THEN {"catch"}
  ELSE IF escapeIdentifierThrows(in.table) \/ escapeIdentifierThrows(in.column) THEN {"catch"}
  ELSE IF in.filter = "badkey" THEN {"catch"}
  ELSE {"call"}


\* the text the search handler gives to node.error when it leaves before its
\* await: the errorMsg of the early return, or in catch err.message, prefixed
\* when it contains 'dimension'; "" when the handler reaches its await
SearchErrorMsg(in) ==
  IF NoConfig(in)
    THEN "No pgvector config node selected. Please configure the Connection property."
  ELSE IF NoCredentials(in)
    THEN "Database credentials not configured. Edit the pgvector-config node to set username and password."
  ELSE IF in.table = "missing"
    THEN "Missing required field: table. Set in node config or pass as msg.table."
  ELSE IF in.column = "missing"
    THEN "Missing required field: column. Set in node config or pass as msg.column."
  ELSE IF SearchVec(in).type = "null"
    THEN "Missing required field: vector. Pass as msg.payload.vector, msg.vector, or msg.payload."
  ELSE IF parseVector(SearchVec(in)).threw
    THEN parseVector(SearchVec(in)).err.message
  ELSE IF validateDimension(parseVector(SearchVec(in)).val, in.dimension).threw
    THEN LET m == validateDimension(parseVector(SearchVec(in)).val, in.dimension).err.message
         IN IF m = "Vector is not an array" THEN m
            ELSE "Vector dimension mismatch: Vector dimension does not match expected"
  ELSE IF escapeIdentifierThrows(in.table) \/ escapeIdentifierThrows(in.column)
          \/ in.filter = "badkey"
    THEN "Invalid identifier: must be a non-empty string"
  ELSE ""

\* the message carries no vector: no msg.payload.vector, no msg.vector, and
\* msg.payload absent or an object without a vector
NoVector(in) ==
  /\ in.node = "search"
  /\ in.payloadType \in {"absent", "object"}
  /\ in.payloadVector.type = "null"
  /\ in.msgVector.type = "null"

\* a batch whose rows do not all pass parseVector and validateDimension
RowsThrow_FirstOnly(rs, dim) ==
  \/ parseVector(rs[1].vector).threw
  \/ validateDimension(parseVector(rs[1].vector).val, dim).threw

\* for each record: validateDimension(parseVector(r.vector), nodeDimension)
RowsThrow(rs, dim) ==
  \E i \in 1..Len(rs) :
    \/ parseVector(rs[i].vector).threw
    \/ validateDimension(parseVector(rs[i].vector).val, dim).threw

\* vectorLiteral(rowVec) of some row may throw
RowLiteralMayThrow(rs) ==
  IF \E i \in 1..Len(rs) : TRUE \in vectorLiteralMayThrow(parseVector(rs[i].vector).val)
  THEN {"catch", "call"} ELSE {"call"}

\* the input handler of pgvector-insert up to its await
InsertPaths(in) ==
  IF NoConfig(in) THEN {"return"}
  ELSE IF in.table = "missing" \/ in.column = "missing" \/ in.payloadType = "absent" THEN {"return"}
  ELSE IF Len(in.records) = 0 THEN {"return"}
  ELSE IF escapeIdentifierThrows(in.table) \/ escapeIdentifierThrows(in.column)
          \/ escapeIdentifierThrows(in.idColumn) THEN {"catch"}
  ELSE IF in.badField THEN {"catch"}
  ELSE IF RowsThrow(in.records, in.dimension) THEN {"catch"}
  ELSE RowLiteralMayThrow(in.records)

\* the input handler of pgvector-upsert up to its await
UpsertPaths(in) ==
  IF NoConfig(in) THEN {"return"}
  ELSE IF NoCredentials(in) THEN {"return"}
  ELSE IF in.table = "missing" \/ in.column = "missing" \/ in.payloadType = "absent" THEN {"return"}
  ELSE IF ~in.hasPk THEN {"return"}
  ELSE IF escapeIdentifierThrows(in.table) \/ escapeIdentifierThrows(in.column)
          \/ escapeIdentifierThrows(in.idColumn) THEN {"catch"}
  ELSE IF RowsThrow(in.records, in.dimension) THEN {"catch"}
  ELSE IF in.badField THEN {"catch"}
  ELSE RowLiteralMayThrow(in.records)

\* create-table: const dims = Number(dimension); dims is dimHalves / 2
\* if (!dims || dims < 1) throw; new Array(dims) throws unless dims is an integer
CreateTableDimsThrow(h) == h = 0 \/ h < 2 \/ h % 2 # 0

\* the input handler of pgvector-admin up to its await
AdminPaths(in) ==
  IF NoConfig(in) THEN {"return"}
  ELSE IF in.table = "notstring" \/ in.column = "notstring" \/ in.indexName = "notstring" THEN {"catch"}
  ELSE IF in.action = "create-extension" THEN {"call"}
  ELSE IF in.action = "create-table" THEN
         IF in.table = "missing" \/ in.column = "missing" THEN {"catch"}
         ELSE IF CreateTableDimsThrow(in.dimHalves) THEN {"catch"}
         ELSE IF validateDimension(ArrayValue(in.dimHalves \div 2), in.dimHalves \div 2).threw THEN {"catch"}
         ELSE {"call"}
  ELSE IF in.action \in {"create-ivfflat", "create-hnsw"} THEN
         IF in.table = "missing" \/ in.column = "missing" THEN {"catch"} ELSE {"call"}
  ELSE IF in.action = "set-probes" THEN {"call"}
  ELSE IF in.action = "drop-index" THEN {"call"}
  ELSE {"catch"}

\* the input handler of pgvector-query up to its await
QueryPaths(in) ==
  IF NoConfig(in) THEN {"return"}
  ELSE IF NoCredentials(in) THEN {"return"}
  ELSE IF in.sql = "missing" THEN {"return"}
  ELSE {"call"}

\* the input handler of pgvector-schema up to its await
SchemaPaths(in) ==
  IF NoConfig(in) THEN {"return"}
  ELSE IF NoCredentials(in) THEN {"return"}
  ELSE {"call"}

HandlerPaths(in) ==
  CASE in.node = "search" -> SearchPaths(in)
    [] in.node = "insert" -> InsertPaths(in)
    [] in.node = "upsert" -> UpsertPaths(in)
    [] in.node = "admin" -> AdminPaths(in)
    [] in.node = "query" -> QueryPaths(in)
    [] OTHER -> SchemaPaths(in)

\* a handler that forgets done() when it returns early
HandlerCalls_NoDoneOnReturn(way) ==
  CASE way = "return" -> [error |-> 1, done |-> 0, send |-> 0]
    [] way = "catch" -> [error |-> 1, done |-> 1, send |-> 0]
    [] OTHER -> [error |-> 0, done |-> 1, send |-> 1]

\* what the handler calls on each way out: node.error and done() on an early
\* return, node.error and done(err) in catch, send and done() after the result
HandlerCalls(way) ==
  CASE way = "return" -> [error |-> 1, done |-> 1, send |-> 0]
    [] way = "catch" -> [error |-> 1, done |-> 1, send |-> 0]
    [] OTHER -> [error |-> 0, done |-> 1, send |-> 1]

HandlerLeaves(r, way) ==
  /\ errorCalls' = [errorCalls EXCEPT ![r] = @ + HandlerCalls(way).error]
  /\ doneCalls' = [doneCalls EXCEPT ![r] = @ + HandlerCalls(way).done]
  /\ sendCalls' = [sendCalls EXCEPT ![r] = @ + HandlerCalls(way).send]
  /\ pc' = [pc EXCEPT ![r] = "handled"]


OneOf(c, name) == IF c THEN {name} ELSE {}

\* the vectors a message carries: the search vector, or the vector of each record
VectorsOf(in) ==
  IF in.node = "search" THEN {SearchVec(in)}
  ELSE IF in.node \in {"insert", "upsert"} /\ in.payloadType # "absent"
         THEN {in.records[i].vector : i \in 1..Len(in.records)}
  ELSE {}

\* the validation failures of a message, read off the message and the
\* configuration: absent config or pool, missing required field, unparseable
\* vector, dimension mismatch, invalid identifier, unknown admin action
ValidationFailures(in) ==
  OneOf(in.cfg \in {"missing", "nopool"}, "config")
  \cup OneOf(/\ in.node \in {"search", "insert", "upsert"}
             /\ in.table = "missing" \/ in.column = "missing", "required")
  \cup OneOf(in.node \in {"insert", "upsert"} /\ in.payloadType = "absent", "required")
  \cup OneOf(in.node = "upsert" /\ in.payloadType # "absent" /\ ~in.hasPk, "required")
  \cup OneOf(/\ in.node = "admin"
             /\ in.action \in {"create-table", "create-ivfflat", "create-hnsw"}
             /\ in.table = "missing" \/ in.column = "missing", "required")
  \cup OneOf(in.node = "admin" /\ in.action = "create-table" /\ in.dimHalves = 0, "required")
  \cup OneOf(\E v \in VectorsOf(in) : v \in {ObjectValue, TextValue}, "parse")
  \cup OneOf(\E v \in VectorsOf(in) :
               /\ in.dimension # 0
               /\ \E n \in 0..MaxDim :
                    /\ v = ArrayValue(n) \/ (n > 0 /\ v = CsvValue(n))
                    /\ n # in.dimension, "dimension")
  \cup OneOf("notstring" \in {in.table, in.column, in.idColumn, in.indexName}, "identifier")
  \cup OneOf(in.node = "search" /\ in.filter = "badkey", "identifier")
  \cup OneOf(in.node \in {"insert", "upsert"} /\ in.badField, "identifier")
  \cup OneOf(in.node = "admin" /\ in.action = "unknown", "action")

\* the vectors of a request in their order: the search vector, or the vector
\* of each record
VectorList(in) ==
  IF in.node = "search" THEN <<SearchVec(in)>>
  ELSE IF in.node \in {"insert", "upsert"} /\ in.payloadType # "absent"
         THEN [i \in 1..Len(in.records) |-> in.records[i].vector]
  ELSE <<>>

\* v is a vector of exactly d elements: the array, or the string '1,...,1'
HasLength(v, d) == v = ArrayValue(d) \/ (d >= 2 /\ v = CsvValue(d))

\* with a dimension configured: how many vectors of the request have exactly
\* that length, and how many are missing or have another length
Fit(in) ==
  IF in.dimension = 0 THEN [fit |-> 0, unfit |-> 0]
  ELSE [fit |-> Cardinality({i \in 1..Len(VectorList(in)) :
                               HasLength(VectorList(in)[i], in.dimension)}),
        unfit |-> Cardinality({i \in 1..Len(VectorList(in)) :
                                 ~HasLength(VectorList(in)[i], in.dimension)})]

\* what the handler makes of a message: the ways it can go, the timeout it
\* passes on, the validation failures the message has, and how its vectors
\* fit the configured dimension
Outcome(in) ==
  [type |-> in.node, ways |-> HandlerPaths(in), timeoutArg |-> in.timeoutArg,
   failures |-> ValidationFailures(in), lengths |-> Fit(in),
   noVector |-> NoVector(in),
   errorMsg |-> IF in.node = "search" THEN SearchErrorMsg(in) ELSE ""]

\* the outcomes of the messages of each node
SearchOutcomes == {Outcome(in) : in \in SearchInputs}
InsertOutcomes ==
  UNION { {Outcome(InsertInput(c, t, col, id, d, pt, p[1], p[2])) : p \in InsertPayloads(pt)} :
            c \in CfgInputs, t \in IdentInputs, col \in IdentInputs,
            id \in {"ok", "notstring"}, d \in 0..MaxDim,
            pt \in {"absent", "array", "object"} }
UpsertOutcomes == {Outcome(in) : in \in UpsertInputs}
AdminOutcomes == {Outcome(in) : in \in AdminInputs}
QueryOutcomes == {Outcome(in) : in \in QueryInputs}
SchemaOutcomes == {Outcome(in) : in \in SchemaInputs}

\* node.on('input', ...) on a message with outcome o: the handler runs up to
\* its first await, or to its end
NodeInput(r, o) ==
  /\ pc[r] = "idle"
  /\ node' = [node EXCEPT ![r] = o.type]
  /\ input' = [input EXCEPT ![r] = [type |-> o.type, failures |-> o.failures,
                                        lengths |-> o.lengths, noVector |-> o.noVector,
                                        errorMsg |-> o.errorMsg]]
  /\ UNCHANGED <<utilVars, configVars, sessionVars>>
  /\ \E way \in o.ways :
       IF way = "call"
         THEN /\ IF o.type = "search"
                   THEN StartQueryWithRetry(r, o.timeoutArg, SEARCH_MAX_RETRIES, SEARCH_RETRY_DELAY)
                   ELSE StartWithClient(r, 0)
              /\ UNCHANGED <<sendCalls, doneCalls, errorCalls>>
         ELSE /\ HandlerLeaves(r, way)
              /\ UNCHANGED <<poolVars, kind, timeout, maxRetries, maxRetriesType, retryDelay, attempt,
                             lastError, settled, result, histVars>>

\* the await of withClient / queryWithRetry is over: send and done(), or catch
HandlerResumes(r) ==
  /\ pc[r] \in {"succeeded", "failed"}
  /\ node[r] # "api"
  /\ HandlerLeaves(r, IF pc[r] = "succeeded" THEN "sent" ELSE "catch")
  /\ UNCHANGED <<poolVars, node, kind, timeout, maxRetries, maxRetriesType, retryDelay, attempt,
                 lastError, settled, result, histVars, input, utilVars, configVars, sessionVars>>

(* ----------------------- nodes/pgvector-config.js ---------------------- *)
\* most close calls a config node receives
MaxCloses == 2

\* the defaults of port and pool size
DefaultPort == 5432
DefaultPoolMax == 10

\* !x of JavaScript
Falsy(x) ==
  \/ x.type \in {"null", "undefined", "NaN"}
  \/ x.type = "string" /\ x.chars = <<>>
  \/ x.type = "number" /\ x.num = 0

\* a < n and a > n for a number a and a whole number n; false when a is NaN
LessThan(a, n) ==
  \/ a.type = "number" /\ a.num < 2 * n
  \/ a.type = "Infinity" /\ a.num < 0

GreaterThan(a, n) ==
  \/ a.type = "number" /\ a.num > 2 * n
  \/ a.type = "Infinity" /\ a.num > 0

\* config.x != null ? Number(config.x) : dflt
NumberOrDefault(x, dflt) ==
  IF x.type \in {"null", "undefined"} THEN NumberValue(2 * dflt) ELSE ToNumber(x)

\* this.port and this.poolMax
PortOf(cfg) == NumberOrDefault(cfg.port, DefaultPort)
PoolMaxOf(cfg) == NumberOrDefault(cfg.max, DefaultPoolMax)

\* !x || typeof x !== 'string' || x.trim() === ''
BlankString(x) == Falsy(x) \/ x.type # "string" \/ Trim(x.chars) = <<>>

\* !x || typeof x !== 'string'
NotString(x) == Falsy(x) \/ x.type # "string"

\* this.port < 1 || this.port > 65535
PortOutOfRange(port) == LessThan(port, 1) \/ GreaterThan(port, 65535)

\* this.poolMax < 1 || this.poolMax > 100
PoolMaxOutOfRange(max) == LessThan(max, 1) \/ GreaterThan(max, 100)

PushIf(c, e) == IF c THEN <<e>> ELSE <<>>

\* the errors array after the six checks, in the order of the pushes
ValidationErrors(cfg) ==
  PushIf(BlankString(cfg.host), "Host is required")
  \o PushIf(BlankString(cfg.database), "Database name is required")
  \o PushIf(PortOutOfRange(PortOf(cfg)), "Port must be between 1 and 65535")
  \o PushIf(PoolMaxOutOfRange(PoolMaxOf(cfg)), "Pool size must be between 1 and 100")
  \o PushIf(BlankString(cfg.user), "Database user is required (configure in node settings)")
  \o PushIf(NotString(cfg.password), "Database password is required (configure in node settings)")

\* a message given to this.error: its fixed text and the errors joined into it
Report(text, parts) == [text |-> text, parts |-> parts]

\* what the editor and the credentials store can hand to the constructor
HostInputs ==
  {UndefinedValue, StringValue(<<>>), StringValue(<<" ">>), StringValue(<<"h">>), NumberValue(2)}
DatabaseInputs == {UndefinedValue, StringValue(<<>>), StringValue(<<"d">>)}
UserInputs == {UndefinedValue, StringValue(<<"u">>)}
PasswordInputs == {UndefinedValue, StringValue(<<>>), StringValue(<<"p">>)}
PortInputs ==
  {UndefinedValue, NullValue, NumberValue(0), NumberValue(2), NumberValue(2 * 65535),
   NumberValue(2 * 65536), StringValue(<<"1">>), StringValue(<<"x">>), StringValue(<<>>)}
MaxInputs ==
  {UndefinedValue, NumberValue(0), NumberValue(2), NumberValue(200), NumberValue(202),
   StringValue(<<"x">>)}
Configs ==
  [host : HostInputs, port : PortInputs, database : DatabaseInputs, user : UserInputs,
   password : PasswordInputs, max : MaxInputs]

\* function PgvectorConfigNode(config): the six checks, then createPool (which
\* may throw) or this.pool = null with the errors reported
PgvectorConfigNode(threw) ==
  /\ pool = "unconstructed"
  /\ errors' = ValidationErrors(config)
  /\ IF ValidationErrors(config) = <<>>
       THEN IF threw
              THEN /\ pool' = "null"
                   /\ reported' = <<Report("Failed to create connection pool", <<>>)>>
              ELSE /\ pool' = "open"
                   /\ reported' = <<>>
       ELSE /\ pool' = "null"
            /\ reported' = <<Report("Invalid configuration", ValidationErrors(config))>>
  /\ UNCHANGED <<config, closing, poolVars, reqVars, histVars, nodeVars, utilVars, sessionVars>>

\* one call of the close handler: pool.end() not yet settled, or settled, and
\* the done() calls made for it
CloseCall(state, dones) == [state |-> state, done |-> dones]

\* a close handler that forgets done() when there is no pool
DoneCalls_NotWithoutPool(way) == IF way \in {"resolved", "rejected"} THEN 1 ELSE 0

\* done() calls of the close handler on each of its ways: no pool, pool.end()
\* resolved, pool.end() rejected
DoneCalls(way) == IF way \in {"nopool", "resolved", "rejected"} THEN 1 ELSE 0

\* this.on('close', done): with a pool, pool.end() is called and done waits for
\* it; without one, done() at once. pool.end() on a pool that is already
\* ending gives a rejected promise
CloseHandler ==
  /\ pool # "unconstructed"
  /\ Len(closing) < MaxCloses
  /\ IF pool = "null"
       THEN /\ closing' = Append(closing, CloseCall("settled", DoneCalls("nopool")))
            /\ UNCHANGED pool
       ELSE /\ closing' = Append(closing,
                 CloseCall(IF pool = "open" THEN "ending" ELSE "refused", 0))
            /\ pool' = IF pool = "open" THEN "ending" ELSE pool
  /\ UNCHANGED <<config, errors, reported, poolVars, reqVars, histVars, nodeVars,
                 utilVars, sessionVars>>

\* pool.end() resolved: .then(() => { log; done() })
PoolEndResolves(i) ==
  /\ i \in 1..Len(closing)
  /\ closing[i].state = "ending"
  /\ closing' = [closing EXCEPT ![i] = CloseCall("settled", @.done + DoneCalls("resolved"))]
  /\ pool' = "ended"
  /\ UNCHANGED <<config, errors, reported, poolVars, reqVars, histVars, nodeVars,
                 utilVars, sessionVars>>

\* pool.end() rejected: .catch((err) => { this.error(...); done() })
PoolEndRejects(i) ==
  /\ i \in 1..Len(closing)
  /\ closing[i].state \in {"ending", "refused"}
  /\ closing' = [closing EXCEPT ![i] = CloseCall("settled", @.done + DoneCalls("rejected"))]
  /\ reported' = Append(reported, Report("Error closing connection pool", <<>>))
  /\ pool' = IF closing[i].state = "ending" THEN "ended" ELSE pool
  /\ UNCHANGED <<config, errors, poolVars, reqVars, histVars, nodeVars,
                 utilVars, sessionVars>>

(* ---------------------------- specifications --------------------------- *)
\* timeout arguments: absent/zero, negative, the default
TimeoutArgs == {0, -1, DEFAULT_QUERY_TIMEOUT}

\* requests of both kinds in flight on one pool: withClient without a timeout
\* (as the insert, upsert, query, schema and admin nodes call it) and
\* queryWithRetry with the default timeout, one retry and a base delay of 1
Next ==
  \E r \in Reqs :
    \/ CallWithClient(r, 0)
    \/ CallQueryWithRetry(r, DEFAULT_QUERY_TIMEOUT, 1, 1)
    \/ PoolConnectResolves(r)
    \/ PoolConnectRejects(r, ErrRefused)
    \/ SetTimeoutResolves(r)
    \/ \E e \in PoolErrors : SetTimeoutRejects(r, e)
    \/ FnResolves(r)
    \/ \E e \in PoolErrors : FnRejects(r, e)
    \/ WithClientSettles(r)
    \/ RetryReturns(r)
    \/ RetryCatch(r)
    \/ BackoffTimerFires(r)
    \/ \E c \in 1..MaxPool : IdleClientRemoved(c)

Spec == Init /\ [][Next]_vars

\* the arguments an API caller passes: small values, the defaults, the search node's
RetryArgs == (0..MaxRetriesArg) \cup {DEFAULT_MAX_RETRIES, SEARCH_MAX_RETRIES}
DelayArgs == (1..MaxDelayArg) \cup {DEFAULT_RETRY_DELAY, SEARCH_RETRY_DELAY}

\* one queryWithRetry request against a backend that may raise any error
NextRetry ==
  \/ \E t \in TimeoutArgs, mr \in RetryArgs, rd \in DelayArgs :
        CallQueryWithRetry(1, t, mr, rd)
  \/ PoolConnectResolves(1)
  \/ \E e \in AllErrors : PoolConnectRejects(1, e)
  \/ SetTimeoutResolves(1)
  \/ \E e \in AllErrors : SetTimeoutRejects(1, e)
  \/ FnResolves(1)
  \/ \E e \in AllErrors : FnRejects(1, e)
  \/ RetryReturns(1)
  \/ RetryCatch(1)
  \/ BackoffTimerFires(1)

SpecRetry == Init /\ [][NextRetry]_vars

\* values of maxRetries: the numbers -1 to MaxRetriesArg, the strings '0' and
\* '1' and null (compared as 0, 1 and 0), and values whose number is NaN
\* ('x', an object)
AnyRetries ==
  {<<"number", n>> : n \in (-1)..MaxRetriesArg}
    \cup {<<"coerced", 0>>, <<"coerced", 1>>, <<"NaN", 0>>}

\* one queryWithRetry request with any maxRetries against a backend that may
\* raise any error
NextRetryAny ==
  \/ \E t \in {DEFAULT_QUERY_TIMEOUT}, mr \in AnyRetries, rd \in 1..MaxDelayArg :
        CallQueryWithRetryOf(1, t, mr[1], mr[2], rd)
  \/ PoolConnectResolves(1)
  \/ \E e \in AllErrors : PoolConnectRejects(1, e)
  \/ SetTimeoutResolves(1)
  \/ \E e \in AllErrors : SetTimeoutRejects(1, e)
  \/ FnResolves(1)
  \/ \E e \in AllErrors : FnRejects(1, e)
  \/ RetryReturns(1)
  \/ RetryCatch(1)
  \/ BackoffTimerFires(1)

SpecRetryAny == Init /\ [][NextRetryAny]_vars

\* the timeout argument of testConnection: absent (the default), zero, negative
ProbeTimeouts == {DEFAULT_TEST_TIMEOUT, 0, -1}

\* health checks on one pool against a backend that may raise any error
NextProbe ==
  \E r \in Reqs :
    \/ \E t \in ProbeTimeouts : CallTestConnection(r, t)
    \/ PoolConnectResolves(r)
    \/ \E e \in AllErrors : PoolConnectRejects(r, e)
    \/ SetTimeoutResolves(r)
    \/ \E e \in AllErrors : SetTimeoutRejects(r, e)
    \/ FnResolves(r)
    \/ \E e \in AllErrors : FnRejects(r, e)
    \/ TestConnectionSettles(r)

SpecProbe == Init /\ [][NextProbe]_vars

\* the steps of request r that the event loop runs once they are ready:
\* a statement or fn that settles, a continuation, a timer
Progress(r) ==
  \/ SetTimeoutResolves(r)
  \/ \E e \in PoolErrors : SetTimeoutRejects(r, e)
  \/ FnResolves(r)
  \/ \E e \in PoolErrors : FnRejects(r, e)
  \/ WithClientSettles(r)
  \/ RetryReturns(r)
  \/ RetryCatch(r)
  \/ BackoffTimerFires(r)

\* Spec, where every ready step is eventually run and the pool eventually
\* serves the oldest waiting connect() once a client is free
SpecFair ==
  /\ Init /\ [][Next]_vars
  /\ \A r \in Reqs : WF_vars(Progress(r)) /\ WF_vars(PoolConnectResolves(r))

\* the messages the operation nodes receive, by their outcomes
NodeOutcomes ==
  SearchOutcomes \cup InsertOutcomes \cup UpsertOutcomes \cup AdminOutcomes
    \cup QueryOutcomes \cup SchemaOutcomes

\* errors of the backend: transient by code, retried for its message, permanent
NodeErrors == {ErrRefused, ErrStatementTimeout, ErrSyntax}

\* one message to an operation node, on a pool that other withClient callers
\* use at the same time
NextNodes ==
  \/ \E o \in NodeOutcomes : NodeInput(1, o)
  \/ HandlerResumes(1)
  \/ \E r \in Reqs \ {1} : CallWithClient(r, 0)
  \/ \E r \in Reqs :
       \/ PoolConnectResolves(r)
       \/ \E e \in NodeErrors : PoolConnectRejects(r, e)
       \/ SetTimeoutResolves(r)
       \/ \E e \in NodeErrors : SetTimeoutRejects(r, e)
       \/ FnResolves(r)
       \/ \E e \in NodeErrors : FnRejects(r, e)
       \/ WithClientSettles(r)
       \/ RetryReturns(r)
       \/ RetryCatch(r)
       \/ BackoffTimerFires(r)

SpecNodes == Init /\ [][NextNodes]_vars

\* a config node from its construction to its close calls
InitConfig ==
  /\ poolMax = 1
  /\ InitRequests
  /\ InitSessions
  /\ args = NoArgs
  /\ ret = NotCalled
  /\ config \in Configs
  /\ pool = "unconstructed"
  /\ errors = <<>>
  /\ reported = <<>>
  /\ closing = <<>>

NextConfig ==
  \/ \E threw \in BOOLEAN : PgvectorConfigNode(threw)
  \/ CloseHandler
  \/ \E i \in 1..MaxCloses : PoolEndResolves(i)
  \/ \E i \in 1..MaxCloses : PoolEndRejects(i)

SpecConfig == InitConfig /\ [][NextConfig]_vars

\* SpecConfig, where a pool.end() that was called settles
SpecConfigFair ==
  /\ SpecConfig
  /\ \A i \in 1..MaxCloses : WF_vars(PoolEndResolves(i) \/ PoolEndRejects(i))

\* longest name given to escapeIdentifier
MaxNameLen == 3

Names == UNION {[1..n -> NameChars] : n \in 1..MaxNameLen}

\* escapeIdentifier(identifier) with a name, an empty string, null, an object
EscapeCalls ==
  {[fn |-> "escapeIdentifier", identifier |-> v] :
     v \in {StringValue(n) : n \in Names} \cup {StringValue(<<>>), NullValue, ObjectValue}}

\* most comma-separated parts of a select clause
MaxParts == 2

\* parts of a select clause: '*', names (plain, upper-case, padded, dotted,
\* hyphenated, a reserved word), two 'expr AS alias' forms, a function call
\* and an empty part
SelectParts ==
  {<<"*">>, <<"a">>, <<"U">>, <<" ", "a", " ">>, <<"a", ".", "s">>, <<"a", "-", "s">>,
   <<"a", "s">>, <<"a", " ", "a", "s", " ", "U">>,
   <<"1", "+", "1", " ", " ", "A", "S", " ", "s">>, <<"f", "(", "a", ")">>, <<>>}

\* escapeSelectClause(selectClause) with undefined, null, '', '*', ' * ' and
\* every clause of up to MaxParts parts
SelectCalls ==
  {[fn |-> "escapeSelectClause", selectClause |-> v] :
     v \in {UndefinedValue, NullValue, StringValue(<<" ", "*", " ">>)}
            \cup {StringValue(Join(ps, <<",">>)) :
                    ps \in UNION {[1..n -> SelectParts] : n \in 1..MaxParts}}}

\* most entries of a filter
MaxFilterKeys == 2

\* most non-vector fields of a record
MaxFields == 2

\* the filters: up to MaxFilterKeys entries with different keys, one of them a
\* key that needs quoting, each with one of two values
FilterKeys == {<<"a">>, <<"s", "\"">>}
FilterVals == {NumberValue(2), StringValue(<<"x">>)}
FilterEntries == [key : FilterKeys, val : FilterVals]
FilterInputs ==
  UNION {{f \in [1..n -> FilterEntries] :
            \A i, j \in 1..n : i # j => f[i].key # f[j].key} : n \in 0..MaxFilterKeys}

\* the limits: absent, null, 0, -1, 0.5, 1, 2.5, MAX_LIMIT, MAX_LIMIT + 1,
\* NaN, Infinity, '5' and 'x'
LimitInputs ==
  {UndefinedValue, NullValue, NaNValue, InfinityValue(1),
   StringValue(<<"5">>), StringValue(<<"x">>)}
    \cup {NumberValue(h) : h \in {0, -2, 1, 2, 5, 2 * MAX_LIMIT, 2 * MAX_LIMIT + 2}}

\* the raw conditions: none, one without a placeholder, one that names the
\* first filter value, one that names a parameter nobody passes
WhereInputs ==
  {UndefinedValue, StringValue(<<>>), StringValue(<<"a", ">", "1">>), StringValue(<<"a", "=", "$", "2">>),
   StringValue(<<"a", "=", "$", "9">>)}

SelectInputs == {UndefinedValue, StringValue(<<"i", "d">>), StringValue(<<"i", "d", ",", "U">>)}

QueryVectors == {JsArray(<<NumberValue(2)>>), JsArray(<<NumberValue(2), NumberValue(5)>>),
                 JsArray(<<NumberValue(5), NumberValue(-2)>>)}

QuerySpecs ==
  [table : {StringValue(<<"a">>), StringValue(<<"a", "-", "1">>)},
   column : {StringValue(<<"s">>)},
   vector : QueryVectors,
   metric : MetricNames,
   limit : LimitInputs,
   filter : FilterInputs,
   select : SelectInputs,
   whereSql : WhereInputs]

BuildCalls == [fn : {"buildSimilarityQuery"}, spec : QuerySpecs]

\* the records of an insert: a vector of one or two numbers and up to
\* MaxFields other fields with different keys, one of them a key that needs
\* quoting, each value a number or an array
FieldVals == {NumberValue(2), JsArray(<<NumberValue(2), NumberValue(4)>>)}
FieldLists ==
  UNION {{f \in [1..n -> [key : FilterKeys, val : FieldVals]] :
            \A i, j \in 1..n : i # j => f[i].key # f[j].key} : n \in 0..MaxFields}
InsertRecords == [vector : {ArrayValue(1), ArrayValue(2)}, fields : FieldLists]

\* the insert node with table 'a', column 's', id column 'id', no dimension
\* configured, and 1 to MaxRecords records
InsertCalls ==
  {[fn |-> "insert", table |-> StringValue(<<"a">>), column |-> StringValue(<<"s">>),
    idColumn |-> StringValue(<<"i", "d">>), dimension |-> 0, records |-> rs] :
     rs \in UNION {[1..n -> InsertRecords] : n \in 1..MaxRecords}}

\* the numbers vectors are made of: 0, 1, -1, 2.5 and 10
FiniteElems == {NumberValue(h) : h \in {0, 2, -2, 5, 20}}

\* four bytes, least significant first, of the single that x is
Float32Bytes(x) ==
  LET h == Abs(x.num)
      p == CHOOSE q \in 0..8 : Pow2(q) <= h /\ h < Pow2(q + 1)
      exp == p - 1 + 127
      frac == (h - Pow2(p)) * Pow2(23 - p)
      top == IF x.num < 0 THEN 128 ELSE 0
  IN CASE x.type = "NaN" -> <<0, 0, 192, 127>>
       [] x.type = "Infinity" -> <<0, 0, 128, IF x.num < 0 THEN 255 ELSE 127>>
       [] x.num = 0 -> <<0, 0, 0, 0>>
       [] OTHER -> <<frac % 256, (frac \div 256) % 256,
                     (exp % 2) * 128 + frac \div 65536, top + exp \div 2>>

RECURSIVE Flatten(_)
Flatten(seqs) == IF seqs = <<>> THEN <<>> ELSE Head(seqs) \o Flatten(Tail(seqs))

\* base64 of a run of bytes
RECURSIVE Base64Encode(_)
Base64Encode(bytes) ==
  LET n == Len(bytes)
      b(i) == IF i <= n THEN bytes[i] ELSE 0
      bits == (b(1) * 256 + b(2)) * 256 + b(3)
      c(k) == Base64Table[((bits \div Pow2(6 * (4 - k))) % 64) + 1]
  IN IF n = 0 THEN <<>>
     ELSE IF n = 1 THEN <<c(1), c(2), "=", "=">>
     ELSE IF n = 2 THEN <<c(1), c(2), c(3), "=">>
     ELSE <<c(1), c(2), c(3), c(4)>> \o Base64Encode(SubSeq(bytes, 4, n))

\* the forms a vector is written in: the array itself, its JSON text, its
\* elements joined by ',', the base64 of its packed singles
FormOf(form, v) ==
  LET texts == [i \in 1..Len(v) |-> NumberToString(v[i])]
  IN CASE form = "array" -> JsArray(v)
       [] form = "json" -> StringValue(<<"[">> \o Join(texts, <<",">>) \o <<"]">>)
       [] form = "csv" -> StringValue(Join(texts, <<",">>))
       [] form = "base64" ->
            StringValue(Base64Encode(Flatten([i \in 1..Len(v) |-> Float32Bytes(v[i])])))

Forms == {"array", "json", "csv", "base64"}

\* parseVector(input) on a vector of 1..MaxDim elements, finite or not, in
\* each of its forms
VectorCalls ==
  UNION {[fn : {"parseVector"}, form : {"array"},
          of : [1..n -> FiniteElems \cup {NaNValue, InfinityValue(1)}],
          input : {NullValue}] : n \in 1..MaxDim}

ParseCallsOfVectors ==
  {[c EXCEPT !.form = f, !.input = FormOf(f, c.of)] : c \in VectorCalls, f \in Forms}

\* other values: arrays with strings among their elements, and the strings
\* '[1,2', '[1,]', '[a]', '[]', ' [ 1 , 2 ] ', '["3","a"]', '[null,1]',
\* '1,x,2', '1,,2', ' 1, 2 ', 'x', '', 'AAAA', 'abc', '12345678'
OtherArrays ==
  UNION {[1..n -> {NumberValue(2), StringValue(<<"3">>), StringValue(<<"a">>)}] : n \in 0..MaxDim}
OtherStrings ==
  {<<"[", "1", ",", "2">>, <<"[", "1", ",", "]">>, <<"[", "a", "]">>, <<"[", "]">>,
   <<" ", "[", " ", "1", " ", ",", " ", "2", " ", "]", " ">>,
   <<"[", "\"", "3", "\"", ",", "\"", "a", "\"", "]">>,
   <<"[", "n", "u", "l", "l", ",", "1", "]">>,
   <<"1", ",", "x", ",", "2">>, <<"1", ",", ",", "2">>, <<" ", "1", ",", " ", "2", " ">>,
   <<"x">>, <<>>, <<"A", "A", "A", "A">>, <<"a", "b", "c">>,
   <<"1", "2", "3", "4", "5", "6", "7", "8">>}
OtherParseCalls ==
  [fn : {"parseVector"}, form : {"other"}, of : {<<>>},
   input : {NullValue, UndefinedValue, ObjectValue, NumberValue(2)}
             \cup {JsArray(es) : es \in OtherArrays}
             \cup {StringValue(cs) : cs \in OtherStrings}]

ParseCalls == ParseCallsOfVectors \cup OtherParseCalls

\* validateDimension(vec, expected) on values that are no arrays and on arrays
\* of up to MaxDim + 1 elements, expected being falsy (0) or a length
ValidateCalls ==
  [fn : {"validateDimension"},
   vec : {NullValue, UndefinedValue, ObjectValue, StringValue(<<"1", ",", "1">>)}
           \cup {ArrayValue(n) : n \in 0..(MaxDim + 1)}
           \cup {JsArray(<<NaNValue>>)},
   expected : 0..(MaxDim + 1)]

\* a return or a throw of a call
Called(out) == [called |-> TRUE, out |-> out]

CallEscapeIdentifier ==
  /\ args.fn = "escapeIdentifier"
  /\ ~ret.called
  /\ ret' = Called(escapeIdentifier(args.identifier))
  /\ UNCHANGED <<args, poolVars, reqVars, histVars, nodeVars, configVars, sessionVars>>

CallEscapeSelectClause ==
  /\ args.fn = "escapeSelectClause"
  /\ ~ret.called
  /\ ret' = Called(escapeSelectClause(args.selectClause))
  /\ UNCHANGED <<args, poolVars, reqVars, histVars, nodeVars, configVars, sessionVars>>

\* the insert node builds its statement
BuildInsertStatement ==
  /\ args.fn = "insert"
  /\ ~ret.called
  /\ ret' = Called(insertStatement(args))
  /\ UNCHANGED <<args, poolVars, reqVars, histVars, nodeVars, configVars, sessionVars>>

CallBuildSimilarityQuery ==
  /\ args.fn = "buildSimilarityQuery"
  /\ ~ret.called
  /\ ret' = Called(buildSimilarityQuery(args.spec))
  /\ UNCHANGED <<args, poolVars, reqVars, histVars, nodeVars, configVars, sessionVars>>

CallParseVector ==
  /\ args.fn = "parseVector"
  /\ ~ret.called
  /\ ret' = Called(parseVector(args.input))
  /\ UNCHANGED <<args, poolVars, reqVars, histVars, nodeVars, configVars, sessionVars>>

CallValidateDimension ==
  /\ args.fn = "validateDimension"
  /\ ~ret.called
  /\ ret' = Called(validateDimension(args.vec, args.expected))
  /\ UNCHANGED <<args, poolVars, reqVars, histVars, nodeVars, configVars, sessionVars>>

\* one call of a function of lib/vector-utils.js
InitUtils ==
  /\ poolMax = 1
  /\ InitRequests
  /\ InitSessions
  /\ InitConfigured
  /\ ret = NotCalled
  /\ \/ args \in EscapeCalls
     \/ args \in SelectCalls
     \/ args \in InsertCalls
     \/ args \in BuildCalls
     \/ args \in ParseCalls
     \/ args \in ValidateCalls

NextUtils ==
  \/ CallEscapeIdentifier
  \/ CallEscapeSelectClause
  \/ BuildInsertStatement
  \/ CallBuildSimilarityQuery
  \/ CallParseVector
  \/ CallValidateDimension

SpecUtils == InitUtils /\ [][NextUtils]_vars

(* -------------------------------- claims ------------------------------- *)
\* the promise of the current withClient call has settled
CallOver(r) == pc[r] \in {"settled", "backoff", "succeeded", "failed"} /\ attempts[r] > 0

\* the caller of the current withClient call has seen its outcome
Delivered(r) == pc[r] \in {"backoff", "succeeded", "failed"} /\ attempts[r] > 0

\* C1: a withClient call whose pool.connect() succeeded calls client.release()
\* exactly once, and has done so when its promise settles and when the caller
\* resumes, whether fn resolved, fn rejected or SET statement_timeout failed
\* (then fn never ran); a call whose connect failed releases nothing and
\* settles with the connect error.
C1_ReleasedExactlyOnce ==
  \A r \in Reqs :
    /\ call[r].releases <= 1
    /\ call[r].releases > 0 => call[r].connected
    /\ CallOver(r) =>
         /\ call[r].connected => call[r].releases = 1
         /\ ~call[r].connected =>
               /\ call[r].releases = 0
               /\ call[r].fnRuns = 0
               /\ ~settled[r].ok /\ settled[r].err = lastRaised[r]
         /\ call[r].setFailed => call[r].fnRuns = 0 /\ ~settled[r].ok
    /\ (Delivered(r) /\ kind[r] = "withClient") => result[r] = settled[r]

C1_Witness ==
  \E r, q \in Reqs :
    /\ pc[r] = "failed" /\ call[r].connected /\ call[r].setFailed /\ call[r].releases = 1
    /\ kind[q] = "withClient" /\ pc[q] = "failed" /\ ~call[q].connected

\* C6: a request holds at most one client of the pool, and none while it
\* waits for a client, while its outcome travels to the caller, while it
\* sleeps in backoff and after its outcome is reported; an attempt that
\* executes holds exactly the client its own pool.connect() acquired.
C6_AtMostOneConnection ==
  \A r \in Reqs :
    /\ held[r] \in {0, 1}
    /\ pc[r] \in {"idle", "acquiring", "settled", "backoff", "succeeded", "failed"}
         => held[r] = 0
    /\ pc[r] \in {"settingTimeout", "running"}
         => held[r] = 1 /\ call[r].connected /\ call[r].releases = 0
    /\ pc[r] = "acquiring" => \E i \in 1..Len(pendingQueue) : pendingQueue[i] = r

C6_Witness ==
  \E r \in Reqs :
    /\ kind[r] = "queryWithRetry" /\ pc[r] = "running" /\ attempt[r] = 1
    /\ Len(waits[r]) = 1 /\ held[r] = 1

Completed(r) == pc[r] \in {"succeeded", "failed"}

\* C7: with more requests in flight than the pool has clients, never more
\* than poolMax clients are checked out, and every request that was started
\* completes with a result or an error.
C7_BoundedAndNoDeadlock ==
  /\ [](CheckedOut <= poolMax)
  /\ \A r \in Reqs : (pc[r] # "idle") ~> Completed(r)

C7_Witness ==
  /\ NumReqs > poolMax
  /\ \A r \in Reqs : Completed(r)
  /\ \E r \in Reqs : kind[r] = "withClient"
  /\ \E r \in Reqs : kind[r] = "queryWithRetry"

QWR(r) == kind[r] = "queryWithRetry"

\* C2: queryWithRetry makes at most maxRetries + 1 attempts; when every
\* attempt failed with a listed transient error it has made exactly
\* maxRetries + 1 attempts when it rejects, and it rejects with the error of
\* the last one; when it returns, the attempt that succeeded is the last
\* attempt it made.
C2_AttemptBound ==
  \A r \in Reqs : QWR(r) =>
    /\ attempts[r] <= maxRetries[r] + 1
    /\ (pc[r] = "failed" /\ allTransient[r]) =>
         /\ attempts[r] = maxRetries[r] + 1
         /\ ~result[r].ok /\ result[r].err = lastRaised[r]
         /\ ListedTransient(result[r].err)
    /\ pc[r] = "succeeded" => result[r].ok /\ result[r].at = attempts[r] - 1

C2_Witness ==
  \E r \in Reqs :
    /\ QWR(r) /\ pc[r] = "failed" /\ allTransient[r]
    /\ maxRetries[r] = SEARCH_MAX_RETRIES /\ attempts[r] = SEARCH_MAX_RETRIES + 1
    /\ result[r].err.code = "ECONNREFUSED"

\* the classes the code retries: the listed ones and any message containing 'timeout'
TransientOrTimeout(err) ==
  \/ ListedTransient(err)
  \/ err.hasMessage /\ Includes(err.message, NeedleTimeout)

\* an attempt of request r has raised an error
HasRaised(r) == lastRaised[r].at >= 0

\* C3 as stated: an error is retried only if it is in a listed transient
\* class (ECONNREFUSED, ENOTFOUND, ETIMEDOUT, 57P03, 53300, message containing
\* 'Connection terminated'); after any other error the request is rethrown
\* at once: no backoff, no further attempt.
C3_Original ==
  \A r \in Reqs : (QWR(r) /\ HasRaised(r) /\ ~ListedTransient(lastRaised[r])) =>
    /\ pc[r] \in {"settled", "failed"}
    /\ Len(waits[r]) = attempts[r] - 1

\* C3 amended: the retried classes are the listed ones and, in addition, any
\* error whose message contains 'timeout'; after an error outside these
\* classes the request is rethrown with that error, no backoff is started and
\* no further attempt is made (one attempt, no wait, when it is the first).
C3_RetryOnlyTransient ==
  \A r \in Reqs : (QWR(r) /\ HasRaised(r) /\ ~TransientOrTimeout(lastRaised[r])) =>
    /\ pc[r] \in {"settled", "failed"}
    /\ Len(waits[r]) = attempts[r] - 1
    /\ lastRaised[r].at = attempts[r] - 1
    /\ pc[r] = "failed" => ~result[r].ok /\ result[r].err = lastRaised[r]

C3_Witness ==
  \E r \in Reqs :
    /\ QWR(r) /\ pc[r] = "failed" /\ maxRetries[r] > 0
    /\ attempts[r] = 1 /\ waits[r] = <<>>
    /\ result[r].err.code = "42501"

\* C4: when queryWithRetry rejects, it rejects with the very error object the
\* last attempt raised; when it returns, it returns the result of the attempt
\* that succeeded and carries no error of an earlier attempt.
C4_LastErrorUnchanged ==
  \A r \in Reqs : QWR(r) =>
    /\ (pc[r] = "failed" /\ attempts[r] > 0) =>
         /\ ~result[r].ok
         /\ result[r].err = lastRaised[r]
         /\ result[r].err.at = attempts[r] - 1
    /\ pc[r] = "succeeded" =>
         /\ result[r].ok /\ result[r].at = attempts[r] - 1
         /\ result[r].err = Undefined

C4_Witness ==
  \E r \in Reqs :
    /\ QWR(r) /\ pc[r] = "failed" /\ attempts[r] = 2 /\ maxRetries[r] = 2
    /\ result[r].err.code = "23505" /\ result[r].err.at = 1

PhaseOf(p) ==
  CASE p = "idle" -> "Idle"
    [] p = "acquiring" -> "Acquiring"
    [] p \in {"settingTimeout", "running"} -> "Executing"
    [] p = "settled" -> "Released"
    [] p = "backoff" -> "Retrying"
    [] p = "succeeded" -> "Succeeded"
    [] OTHER -> "Failed"

Phase(r) == PhaseOf(pc[r])

PhaseNext(r) == PhaseOf(pc'[r])

EntersRetrying(r) == pc[r] # "backoff" /\ pc'[r] = "backoff"

Reports(r) == ~Completed(r) /\ pc'[r] \in {"succeeded", "failed"}

\* C8 as stated: Retrying is entered only from an attempt that was Executing
\* (it had its connection and a statement in flight) and failed with a
\* retryable classification while attempts remain; Succeeded or Failed is
\* reported only after the release.
C8_Original ==
  [][\A r \in Reqs : kind'[r] = "queryWithRetry" =>
       /\ EntersRetrying(r) =>
             /\ call[r].connected /\ call[r].fnRuns + (IF call[r].setFailed THEN 1 ELSE 0) > 0
             /\ ~settled[r].ok /\ TransientOrTimeout(settled[r].err)
             /\ attempt[r] < maxRetries[r]
       /\ Reports(r) => held[r] = 0 /\ Phase(r) = "Released"]_vars

\* the lifecycle the code follows, attempt by attempt
LifecycleSteps ==
  { <<"Idle", "Acquiring">>, <<"Acquiring", "Executing">>, <<"Acquiring", "Released">>,
    <<"Executing", "Released">>, <<"Released", "Retrying">>, <<"Retrying", "Acquiring">>,
    <<"Released", "Succeeded">>, <<"Released", "Failed">> }

\* C8 amended: every attempt runs Acquiring -> Executing -> Released, or
\* Acquiring -> Released when pool.connect() is rejected; Retrying is entered
\* only from Released, after an attempt (rejected while Acquiring or failed
\* while Executing) failed with a retryable classification while attempts
\* remain, and leads back to Acquiring; Succeeded or Failed is reported only
\* from Released, when the request holds no connection.
C8_Lifecycle ==
  [][\A r \in Reqs : kind'[r] = "queryWithRetry" =>
       /\ PhaseNext(r) = Phase(r) \/ <<Phase(r), PhaseNext(r)>> \in LifecycleSteps
       /\ EntersRetrying(r) =>
             /\ Phase(r) = "Released" /\ held[r] = 0
             /\ call[r].connected => call[r].releases = 1
             /\ ~settled[r].ok /\ TransientOrTimeout(settled[r].err)
             /\ attempt[r] < maxRetries[r]
       /\ Reports(r) =>
             /\ Phase(r) = "Released" /\ held[r] = 0
             /\ call[r].connected => call[r].releases = 1]_vars

C8_Witness ==
  \E r \in Reqs :
    /\ QWR(r) /\ pc[r] = "backoff" /\ ~call[r].connected
    /\ lastRaised[r].code = "ECONNREFUSED" /\ attempt[r] < maxRetries[r]

\* the handler of request r is an input handler that has returned
Handled(r) == pc[r] = "handled"

\* C9: in the search, insert, upsert and admin input handlers, a message with a
\* validation failure (config node or pool absent, required field missing,
\* vector not parseable, dimension mismatch, invalid identifier, unknown admin
\* action) never calls pool.connect() and never runs a statement.
C9_ValidationNeverReachesPool ==
  \A r \in Reqs :
    (/\ node[r] \in {"search", "insert", "upsert", "admin"}
     /\ input[r].failures # {}) =>
       /\ attempts[r] = 0
       /\ call[r] = FreshCall
       /\ held[r] = 0
       /\ \A i \in 1..Len(pendingQueue) : pendingQueue[i] # r
       /\ pc[r] \in {"handled"}

C9_Witness ==
  \E r \in Reqs :
    /\ Handled(r)
    /\ node[r] = "insert"
    /\ input[r].failures = {"dimension"}
    /\ attempts[r] = 0

\* C10: for every message to an operation node, done is called exactly once
\* (never before the handler is through, once when it is) and send at most
\* once; send is called only after the backend query succeeded; on every
\* failure path node.error is called and nothing is sent.
C10_DoneOnceSendOnSuccess ==
  \A r \in Reqs :
    /\ ~Handled(r) => doneCalls[r] = 0 /\ sendCalls[r] = 0 /\ errorCalls[r] = 0
    /\ Handled(r) =>
         /\ doneCalls[r] = 1
         /\ sendCalls[r] <= 1
         /\ sendCalls[r] = 1 => result[r].ok /\ errorCalls[r] = 0
         /\ ~result[r].ok => errorCalls[r] = 1 /\ sendCalls[r] = 0
         /\ result[r].ok => sendCalls[r] = 1

C10_Witness ==
  \E r \in Reqs :
    /\ Handled(r)
    /\ node[r] = "search"
    /\ attempts[r] = SEARCH_MAX_RETRIES + 1
    /\ ~result[r].ok
    /\ errorCalls[r] = 1 /\ doneCalls[r] = 1 /\ sendCalls[r] = 0

\* the call of fn has returned or thrown
Did(fn) == args.fn = fn /\ ret.called

\* the SQL lexer on text that starts with '"': the position of the '"' that
\* closes the quoted identifier ('""' inside stands for one '"'), 0 if none
RECURSIVE QuotedEnd(_, _)
QuotedEnd(text, i) ==
  IF i > Len(text) THEN 0
  ELSE IF text[i] # "\"" THEN QuotedEnd(text, i + 1)
  ELSE IF i < Len(text) /\ text[i + 1] = "\"" THEN QuotedEnd(text, i + 2)
  ELSE i

\* the name a quoted identifier with this inside stands for
RECURSIVE Undouble(_)
Undouble(inner) ==
  IF inner = <<>> THEN <<>>
  ELSE IF Head(inner) = "\"" /\ Len(inner) > 1
         THEN <<"\"">> \o Undouble(Tail(Tail(inner)))
  ELSE <<Head(inner)>> \o Undouble(Tail(inner))

\* text is one unquoted identifier to the SQL lexer
IsUnquotedToken(text) ==
  /\ text # <<>>
  /\ text[1] \in {"a", "s", "U", "_"}
  /\ \A i \in 1..Len(text) : text[i] \in {"a", "s", "U", "_", "1", "$"}

\* text is one quoted identifier to the SQL lexer, standing for name
IsQuotedToken(text, name) ==
  /\ Len(text) >= 3
  /\ text[1] = "\""
  /\ QuotedEnd(text, 2) = Len(text)
  /\ Undouble(SubSeq(text, 2, Len(text) - 1)) = name

\* C11: for every non-empty string name, escapeIdentifier returns one SQL
\* identifier token: the name unchanged when it is a plain identifier, or the
\* name inside one pair of double quotes with every inner double quote
\* doubled, the quoted identifier ending exactly where the result ends.
C11_OneIdentifierToken ==
  (Did("escapeIdentifier") /\ args.identifier.type = "string"
     /\ args.identifier.chars # <<>>) =>
    /\ ~ret.out.threw
    /\ ret.out.val.type = "string"
    /\ \/ ret.out.val.chars = args.identifier.chars
            /\ IsUnquotedToken(ret.out.val.chars)
       \/ IsQuotedToken(ret.out.val.chars, args.identifier.chars)

C11_Witness ==
  /\ Did("escapeIdentifier")
  /\ args.identifier.chars = <<"a", "\"", ";">>
  /\ ret.out.val.chars = <<"\"", "a", "\"", "\"", ";", "\"">>

\* the lexer of PostgreSQL on a statement text: the numbers of the
\* placeholders $n it finds. A '$' inside a quoted identifier or a string
\* literal, and a '$' that continues an identifier, is no placeholder.
IdentStart == {"a", "s", "i", "d", "U", "A", "S", "x", "_"}
DigitSet == {Digits[d] : d \in 1..10}
IdentChars == IdentStart \cup DigitSet \cup {"$"}
Quoted(text, i) ==
  \E q \in {"\"", "'"} : Cardinality({j \in 1..(i - 1) : text[j] = q}) % 2 = 1
ContinuesIdentifier(text, i) ==
  \E j \in 1..(i - 1) : text[j] \in IdentStart /\ \A k \in j..(i - 1) : text[k] \in IdentChars
DigitsEnd(text, i) ==
  CHOOSE j \in i..Len(text) :
    /\ \A k \in (i + 1)..j : text[k] \in DigitSet
    /\ j = Len(text) \/ text[j + 1] \notin DigitSet
Placeholders(text) ==
  {DecimalValue(SubSeq(text, i + 1, DigitsEnd(text, i))) :
     i \in {k \in 1..(Len(text) - 1) :
              /\ text[k] = "$"
              /\ text[k + 1] \in DigitSet
              /\ ~Quoted(text, k)
              /\ ~ContinuesIdentifier(text, k)}}

\* cs occurs in text
Occurs(cs, text) ==
  \E i \in 1..(Len(text) - Len(cs) + 1) : SubSeq(text, i, i + Len(cs) - 1) = cs

\* the call of buildSimilarityQuery has returned a statement
Built == Did("buildSimilarityQuery") /\ ~ret.out.threw

\* the serialized vector read back: '[' numbers separated by ',' ']'
ReadsAs(chars, vec) ==
  /\ Len(chars) >= 2
  /\ chars[1] = "[" /\ chars[Len(chars)] = "]"
  /\ LET parts == Split(SubSeq(chars, 2, Len(chars) - 1))
     IN /\ Len(parts) = Len(vec.elems)
        /\ \A i \in 1..Len(parts) : StringToNumber(parts[i]) = vec.elems[i]

\* what C12 says of params and of the filter keys
ParamsAndKeys ==
  LET f == args.spec.filter
      out == ret.out
  IN /\ Len(out.params) = 1 + Len(f)
     /\ out.params[1].type = "string"
     /\ ReadsAs(out.params[1].chars, args.spec.vector)
     /\ \A i \in 1..Len(f) : out.params[i + 1] = f[i].val
     /\ \A i \in 1..Len(f) :
          Occurs(escapeIdentifier(StringValue(f[i].key)).val.chars
                   \o <<" ", "=", " ", "$">> \o Decimal(i + 1), out.sql)

\* C12 as stated: params is the serialized vector followed by the filter
\* values in order, the i-th key appears as '<escaped key> = $(i+1)', and
\* every placeholder $n of the text has 1 <= n <= params.length.
C12_Original ==
  Built => /\ ParamsAndKeys
           /\ \A n \in Placeholders(ret.out.sql) : 1 <= n /\ n <= Len(ret.out.params)

\* C12: params is the serialized vector followed by the filter values in
\* order, the i-th key appears as '<escaped key> = $(i+1)', and every
\* placeholder of the text that the raw condition did not bring with it has
\* 1 <= n <= params.length.
C12_ParamsMatchPlaceholders ==
  Built =>
    /\ ParamsAndKeys
    /\ \A n \in Placeholders(ret.out.sql) :
         \/ 1 <= n /\ n <= Len(ret.out.params)
         \/ n \in Placeholders(args.spec.whereSql.chars)

C12_Witness ==
  /\ Built
  /\ Len(args.spec.filter) = 2
  /\ args.spec.whereSql = StringValue(<<"a", "=", "$", "2">>)
  /\ Placeholders(ret.out.sql) = {1, 2, 3}
  /\ Len(ret.out.params) = 3

\* the specs that differ from spec only in the contents of the vector and in
\* the values of the filter
SameButValues(spec) ==
  {[spec EXCEPT !.vector = v, !.filter = f] :
     v \in QueryVectors,
     f \in {g \in FilterInputs :
              /\ Len(g) = Len(spec.filter)
              /\ \A i \in 1..Len(g) : g[i].key = spec.filter[i].key}}

\* C13: the text of buildSimilarityQuery does not depend on the vector or on
\* a filter value: every spec that differs only in these gives the same text
\* character by character, the serialized vector is in params and not in the
\* text, and a second call with the same spec gives the same text and params.
C13_TextIndependentOfValues ==
  Built =>
    /\ \A other \in SameButValues(args.spec) :
         /\ ~buildSimilarityQuery(other).threw
         /\ buildSimilarityQuery(other).sql = ret.out.sql
    /\ ~Occurs(vectorLiteral(args.spec.vector), ret.out.sql)
    /\ ret.out.params[1].chars = vectorLiteral(args.spec.vector)
    /\ buildSimilarityQuery(args.spec) = ret.out

C13_Witness ==
  /\ Built
  /\ Len(args.spec.filter) = 2
  /\ args.spec.vector = JsArray(<<NumberValue(5), NumberValue(-2)>>)
  /\ \E other \in SameButValues(args.spec) :
       /\ buildSimilarityQuery(other).sql = ret.out.sql
       /\ buildSimilarityQuery(other).params[1] # ret.out.params[1]
       /\ buildSimilarityQuery(other).params[3] # ret.out.params[3]

\* the literal after LIMIT: the characters after the last ' ' of the text
LimitText(sql) ==
  SubSeq(sql, 1 + (CHOOSE i \in 1..Len(sql) :
                     sql[i] = " " /\ \A j \in (i + 1)..Len(sql) : sql[j] # " "), Len(sql))

\* max(1, min(limit or 10, 10000)) in halves, 'limit or 10' being 10 for an
\* absent limit, for 0 and for a value that is no number
ClampedLimit(limit) ==
  LET n == ToNumber(limit)
      h == CASE limit.type = "undefined" -> 2 * DEFAULT_LIMIT
             [] n.type = "NaN" -> 2 * DEFAULT_LIMIT
             [] n.type = "Infinity" -> n.num * (2 * MAX_LIMIT + 2)
             [] OTHER -> (IF n.num = 0 THEN 2 * DEFAULT_LIMIT ELSE n.num)
  IN IF h > 2 * MAX_LIMIT THEN 2 * MAX_LIMIT ELSE IF h < 2 THEN 2 ELSE h

\* C14: for every requested limit the LIMIT written into the text is an
\* integer n with 1 <= n <= 10000, equal to max(1, min(limit or 10, 10000)).
C14_LimitIsClampedInteger ==
  Built =>
    /\ AllDigits(LimitText(ret.out.sql))
    /\ DecimalValue(LimitText(ret.out.sql)) \in 1..MAX_LIMIT
    /\ 2 * DecimalValue(LimitText(ret.out.sql)) = ClampedLimit(args.spec.limit)

\* the operator the metric stands for: '<=>' for cosine, '<->' for l2, '<#>'
\* for inner-product and ip, '<=>' for every other value
OperatorOf(metric) ==
  CASE metric = "l2" -> <<"<", "-", ">">>
    [] metric \in {"inner-product", "ip"} -> <<"<", "#", ">">>
    [] OTHER -> <<"<", "=", ">">>

\* C15: the text holds '<column> <op> $1 AS similarity' with '<=>' for metric
\* cosine, '<->' for l2, '<#>' for inner-product and ip, and '<=>' for every
\* other metric value, unknown or absent; no metric makes the call throw.
C15_OperatorFromTable ==
  Did("buildSimilarityQuery") =>
    /\ ~ret.out.threw
    /\ Occurs(<<",", " ">> \o escapeIdentifier(args.spec.column).val.chars \o <<" ">>
                \o OperatorOf(args.spec.metric)
                \o <<" ", "$", "1", " ", "A", "S", " ">>, ret.out.sql)

\* the call of parseVector has returned a vector
Parsed == Did("parseVector") /\ ~ret.out.threw /\ ret.out.val.type = "array"

\* C16: every element of a vector that parseVector returns is a finite
\* number, whether the input was an array of numbers or of strings, a JSON
\* array, a comma-separated string or a base64 string.
C16_ElementsFinite ==
  Parsed => \A i \in 1..Len(ret.out.val.elems) : ret.out.val.elems[i].type \in {"number", "finite"}

\* the tokens of a comma-separated string that stand for a finite number: a
\* token is finite when, white space aside, it is empty or a decimal numeral
\* with an optional sign
FiniteToken(cs) ==
  LET t == Trim(cs)
      body == IF t # <<>> /\ Head(t) \in {"+", "-"} THEN Tail(t) ELSE t
  IN t = <<>> \/ IsDecimalLiteral(body)
KeptTokens(cs) ==
  LET parts == Split(cs)
      RECURSIVE Keep(_)
      Keep(i) == IF i > Len(parts) THEN <<>>
                 ELSE (IF FiniteToken(parts[i]) THEN <<StringToNumber(parts[i])>> ELSE <<>>)
                        \o Keep(i + 1)
  IN Keep(1)

\* a string in the base64 form: base64 characters only, a multiple of 4 of
\* them, that stand for a multiple of 4 bytes
PaddingOf(t) == Cardinality({i \in 1..Len(t) : t[i] = "="})
IsBase64Form(t) ==
  /\ t # <<>>
  /\ MatchesBase64(t)
  /\ Len(t) % 4 = 0
  /\ ((Len(t) \div 4) * 3 - PaddingOf(t)) % 4 = 0

\* C17: parseVector tries the formats in a fixed order: null or undefined
\* gives null; an array is converted element by element; a string that
\* starts with '[' is read as a JSON array and, where that fails, goes on to
\* the later formats; a string with a comma is split, keeping in order the
\* tokens that stand for a finite number; a base64 string of a multiple of 4
\* characters that stands for a multiple of 4 bytes is read as singles; every
\* other input throws 'Unsupported vector format'.
C17_FormatOrder ==
  Did("parseVector") =>
    LET x == args.input
        out == ret.out
        t == Trim(x.chars)
        json == x.type = "string" /\ t # <<>> /\ t[1] = "[" /\ JsonParse(t) # Invalid
        csv == x.type = "string" /\ ~json /\ IncludesComma(t)
        b64 == x.type = "string" /\ ~json /\ ~csv /\ IsBase64Form(t)
    IN /\ x.type \in {"null", "undefined"} => out = Returns(NullValue)
       /\ x.type = "array" =>
            /\ ~out.threw /\ Len(out.val.elems) = Len(x.elems)
            /\ \A i \in 1..Len(x.elems) : out.val.elems[i] = ToNumber(x.elems[i])
       /\ json =>
            /\ ~out.threw /\ Len(out.val.elems) = Len(JsonParse(t).elems)
            /\ \A i \in 1..Len(out.val.elems) :
                 out.val.elems[i] = ToNumber(JsonParse(t).elems[i])
       /\ csv => ~out.threw /\ out.val.elems = KeptTokens(t)
       /\ b64 =>
            /\ ~out.threw /\ 4 * Len(out.val.elems) = Len(Base64Decode(t))
            /\ \A i \in 1..Len(out.val.elems) :
                 out.val.elems[i] = Float32Of(SubSeq(Base64Decode(t), 4 * i - 3, 4 * i))
       /\ (x.type \notin {"null", "undefined", "array"} /\ ~json /\ ~csv /\ ~b64) =>
            out = Throws

\* a string that starts with '[' and is no JSON went on to the comma-separated
\* format, where one token of two was kept
C17_Witness ==
  /\ Did("parseVector")
  /\ args.input = StringValue(<<"[", "1", ",", "2">>)
  /\ ret.out = Returns(JsArray(<<NumberValue(4)>>))

\* C18: for every vector v of two or more finite numbers, each exactly a
\* 32-bit float, parseVector returns v for the array v, for its JSON text,
\* for its elements joined by ',' and for the base64 of its packed
\* little-endian singles.
C18_FormsAgree ==
  (/\ Did("parseVector")
   /\ args.form \in Forms
   /\ Len(args.of) >= 2
   /\ \A i \in 1..Len(args.of) : args.of[i].type = "number") =>
     ret.out = Returns(JsArray(args.of))

C18_Witness ==
  /\ Did("parseVector")
  /\ args.form = "base64"
  /\ args.of = <<NumberValue(5), NumberValue(-2)>>
  /\ args.input.chars = <<"A", "A", "A", "g", "Q", "A", "A", "A", "g", "L", "8", "=">>
  /\ ret.out = Returns(JsArray(<<NumberValue(5), NumberValue(-2)>>))

\* C19: validateDimension(vec, expected) returns vec itself when expected is
\* falsy, whatever vec is, and when vec is an array of expected elements;
\* with a truthy expected it throws 'Vector is not an array' for a vec that
\* is no array, and an error naming the actual and the expected length for
\* an array of another length.
C19_ValidateDimension ==
  Did("validateDimension") =>
    LET vec == args.vec
        expected == args.expected
        out == ret.out
    IN /\ expected = 0 => out = Returns(vec)
       /\ (expected # 0 /\ vec.type = "array" /\ Len(vec.elems) = expected) =>
            out = Returns(vec)
       /\ (expected # 0 /\ vec.type # "array") =>
            out.threw /\ out.err.message = "Vector is not an array"
       /\ (expected # 0 /\ vec.type = "array" /\ Len(vec.elems) # expected) =>
            /\ out.threw
            /\ out.err.message = "Vector dimension does not match expected"
            /\ out.err.actual = Len(vec.elems)
            /\ out.err.expected = expected

C19_Witness ==
  /\ Did("validateDimension")
  /\ args.vec = ArrayValue(1)
  /\ args.expected = 2
  /\ ret.out.threw
  /\ ret.out.err.actual = 1
  /\ ret.out.err.expected = 2

\* C20: with a dimension configured on a search, insert or upsert node, a
\* request one of whose vectors is missing or has another length never calls
\* pool.connect() and never runs a statement: the handler has returned, and
\* in a batch no record was inserted.
C20_DimensionGuardsEveryVector ==
  \A r \in Reqs :
    (/\ node[r] \in {"search", "insert", "upsert"}
     /\ input[r].lengths.unfit > 0) =>
       /\ attempts[r] = 0
       /\ call[r] = FreshCall
       /\ held[r] = 0
       /\ \A i \in 1..Len(pendingQueue) : pendingQueue[i] # r
       /\ Handled(r)

\* a batch of two records, one of the configured length and one without a
\* vector, has been rejected
C20_Witness ==
  \E r \in Reqs :
    /\ Handled(r)
    /\ node[r] = "insert"
    /\ input[r].lengths = [fit |-> 1, unfit |-> 1]
    /\ input[r].failures = {}
    /\ attempts[r] = 0
    /\ errorCalls[r] = 1


(* C21: a config node has a pool only if host, database, user and password
   are non-empty strings and port and pool size (5432 and 10 when absent) are
   numbers within [1, 65535] and [1, 100]; with any other configuration
   this.pool is null, no pool was created, and the reported validation error
   names every invalid field. *)
NonEmptyString(x) == x.type = "string" /\ x.chars # <<>>

NumberWithin(x, lo, hi) == x.type = "number" /\ 2 * lo <= x.num /\ x.num <= 2 * hi

InvalidFields(cfg) ==
  OneOf(~NonEmptyString(cfg.host), "Host is required")
  \cup OneOf(~NonEmptyString(cfg.database), "Database name is required")
  \cup OneOf(~NumberWithin(PortOf(cfg), 1, 65535), "Port must be between 1 and 65535")
  \cup OneOf(~NumberWithin(PoolMaxOf(cfg), 1, 100), "Pool size must be between 1 and 100")
  \cup OneOf(~NonEmptyString(cfg.user), "Database user is required (configure in node settings)")
  \cup OneOf(~NonEmptyString(cfg.password),
             "Database password is required (configure in node settings)")

PoolCreated == pool \in {"open", "ending", "ended"}

C21_PoolOnlyForValidConfig ==
  pool # "unconstructed" =>
    /\ PoolCreated => InvalidFields(config) = {}
    /\ InvalidFields(config) # {} =>
         /\ pool = "null"
         /\ reported # <<>>
         /\ reported[1].text = "Invalid configuration"
         /\ \A f \in InvalidFields(config) : \E i \in 1..Len(errors) : errors[i] = f


(* C22: every call of the close handler completes with exactly one done():
   at no time has a close call made more than one, a call is settled exactly
   when it has made one, and each call made, the first and a later one, with
   or without a pool, whether pool.end() resolves or rejects, leads to its
   done(). *)
C22_CloseCallsDoneOnce ==
  /\ [](\A i \in 1..Len(closing) :
          /\ closing[i].done <= 1
          /\ closing[i].state = "settled" <=> closing[i].done = 1)
  /\ \A i \in 1..MaxCloses :
       (Len(closing) >= i) ~> (Len(closing) >= i /\ closing[i].done = 1)

\* closed twice with a pool: the first close ended the pool, the second found
\* it ended, and each called done once
C22_Witness ==
  /\ Len(closing) = 2
  /\ pool = "ended"
  /\ \A i \in 1..2 : closing[i].done = 1
  /\ \E i \in 1..Len(reported) : reported[i].text = "Error closing connection pool"


(* C23: testConnection never rejects. Once it has settled it is fulfilled,
   with true exactly when its one 'SELECT 1' ran and nothing was raised, and
   with false after a connect error, a failed SET statement_timeout or a
   failed probe; it has made one withClient call, run the probe at most
   once, started no backoff timer, and holds no connection. *)
Probed(r) == kind[r] = "testConnection" /\ pc[r] \in {"succeeded", "failed"}

C23_ProbeNeverRejects ==
  \A r \in Reqs :
    Probed(r) =>
      /\ pc[r] = "succeeded"
      /\ result[r].ok
      /\ result[r].value \in {"true", "false"}
      /\ result[r].value = "true" <=> (call[r].fnRuns = 1 /\ lastRaised[r] = Undefined)
      /\ attempts[r] = 1
      /\ call[r].fnRuns <= 1
      /\ waits[r] = <<>>
      /\ held[r] = 0

\* a health check that answered false because SET statement_timeout failed
C23_Witness ==
  \E r \in Reqs :
    /\ Probed(r)
    /\ result[r].value = "false"
    /\ call[r].setFailed
    /\ call[r].releases = 1


(* C24: a search message that supplies no vector, once it is past the checks
   of the connection, the credentials, the table and the column, is turned
   down with 'Missing required field: vector. Pass as msg.payload.vector,
   msg.vector, or msg.payload.'; nothing is sent and no query is attempted. *)
EarlierChecks ==
  {"No pgvector config node selected. Please configure the Connection property.",
   "Database credentials not configured. Edit the pgvector-config node to set username and password.",
   "Missing required field: table. Set in node config or pass as msg.table.",
   "Missing required field: column. Set in node config or pass as msg.column."}

C24_MissingVectorNamed ==
  \A r \in Reqs :
    (/\ node[r] = "search"
     /\ input[r].noVector
     /\ input[r].errorMsg \notin EarlierChecks) =>
      /\ input[r].errorMsg =
           "Missing required field: vector. Pass as msg.payload.vector, msg.vector, or msg.payload."
      /\ errorCalls[r] = 1
      /\ sendCalls[r] = 0
      /\ attempts[r] = 0


(* C25: escapeIdentifier returns a name made only of letters of either case,
   digits, underscores and dots unchanged, without quotes, and wraps a name
   in double quotes only when it contains some other character. *)
OnlyWordCharsAndDots(name) ==
  \A i \in 1..Len(name) : name[i] \in {"a", "s", "U", "1", "_", "."}

C25_WordNamesUnchanged ==
  (Did("escapeIdentifier") /\ args.identifier.type = "string"
     /\ args.identifier.chars # <<>>) =>
    /\ ~ret.out.threw
    /\ OnlyWordCharsAndDots(args.identifier.chars) =>
         ret.out.val.chars = args.identifier.chars
    /\ ~OnlyWordCharsAndDots(args.identifier.chars) =>
         IsQuotedToken(ret.out.val.chars, args.identifier.chars)


(* C26: escapeSelectClause returns '*' for undefined, null, '' and '*'; for
   any other clause the result is its comma-separated parts, each handled on
   its own and joined by ', ' in their order: a bare '*' stays '*'; a part
   'expr AS alias' becomes expr, ' AS ' and the escaped alias; a part of word
   characters and dots only goes through escapeIdentifier; every other part
   (a function call, a hyphenated word) is returned as it is. *)
WordOrDot == {"a", "s", "U", "A", "S", "1", "_", "."}

ExpectedPart(part) ==
  LET t == Trim(part)
  IN IF t = <<"*">> THEN t
     ELSE IF AsMatch(t) # 0
       THEN Trim(SubSeq(t, 1, AsMatch(t))) \o <<" ", "A", "S", " ">>
              \o escapeIdentifier(StringValue(AliasOf(t))).val.chars
     ELSE IF t # <<>> /\ \A i \in 1..Len(t) : t[i] \in WordOrDot
       THEN escapeIdentifier(StringValue(t)).val.chars
     ELSE t

Chars(str) ==
  CASE str = "SELECT " -> <<"S", "E", "L", "E", "C", "T", " ">>
    [] str = " AS similarity FROM " ->
         <<" ", "A", "S", " ", "s", "i", "m", "i", "l", "a", "r", "i", "t", "y", " ",
           "F", "R", "O", "M", " ">>
    [] str = "WHERE" -> <<"W", "H", "E", "R", "E">>
    [] str = " AND " -> <<" ", "A", "N", "D", " ">>
    [] str = "ORDER BY similarity ASC LIMIT " ->
         <<"O", "R", "D", "E", "R", " ", "B", "Y", " ", "s", "i", "m", "i", "l", "a", "r",
           "i", "t", "y", " ", "A", "S", "C", " ", "L", "I", "M", "I", "T", " ">>

HasRawWhere == args.spec.whereSql.type = "string" /\ args.spec.whereSql.chars # <<>>

ExpectedClauses ==
  [i \in 1..Len(args.spec.filter) |->
     escapeIdentifier(StringValue(args.spec.filter[i].key)).val.chars
       \o <<" ", "=", " ", "$">> \o Decimal(i + 1)]
  \o (IF HasRawWhere THEN <<(<<"(">> \o args.spec.whereSql.chars \o <<")">>)>> ELSE <<>>)

ExpectedHead ==
  Chars("SELECT ")
    \o escapeSelectClause(IF args.spec.select.type = "undefined"
                            THEN StringValue(<<"*">>) ELSE args.spec.select).val.chars
    \o <<",", " ">> \o escapeIdentifier(args.spec.column).val.chars
    \o <<" ">> \o METRIC_OPERATORS(args.spec.metric) \o <<" ", "$", "1">>
    \o Chars(" AS similarity FROM ") \o escapeIdentifier(args.spec.table).val.chars

ExpectedTail ==
  Chars("ORDER BY similarity ASC LIMIT ") \o NumberToString(safeLimit(args.spec.limit))

C27_StatementShape ==
  Built =>
    /\ Occurs(Chars("WHERE"), ret.out.sql) <=> (Len(args.spec.filter) > 0 \/ HasRawWhere)
    /\ IF ExpectedClauses = <<>>
         THEN \E gap \in {<<" ">>, <<" ", " ">>} :
                ret.out.sql = ExpectedHead \o gap \o ExpectedTail
         ELSE ret.out.sql =
                ExpectedHead \o <<" ">> \o Chars("WHERE") \o <<" ">>
                  \o Join(ExpectedClauses, Chars(" AND ")) \o <<" ">> \o ExpectedTail

\* two filter keys, one of them quoted, and a raw expression after them
C27_Witness ==
  /\ Built
  /\ Len(args.spec.filter) = 2
  /\ args.spec.filter[2].key = <<"s", "\"">>
  /\ args.spec.whereSql.chars = <<"a", ">", "1">>
  /\ Occurs(<<"a", " ", "=", " ", "$", "2", " ", "A", "N", "D", " ", "\"", "s", "\"", "\"",
              "\"", " ", "=", " ", "$", "3", " ", "A", "N", "D", " ", "(", "a", ">", "1",
              ")", " ", "O", "R", "D", "E", "R">>, ret.out.sql)


(* C28: a timeout bounds only the statements of the call it was passed to:
   whenever a withClient call that passes no timeout runs its statement, no
   statement_timeout set by an earlier call is in force on its connection. *)
C28_TimeoutEndsWithItsCall ==
  \A r \in Reqs :
    (pc[r] = "running" /\ kind[r] = "withClient" /\ ~TimeoutApplies(timeout[r])) =>
      statementTimeout[client[r]] = 0


(* C29: for an insert of N >= 1 records whose first record has F >= 0 other
   fields, the statement lists F + 1 columns, the vector column first and no
   empty entry; it has N tuples of F + 1 placeholders, which are $1 to
   $(N(F+1)) in increasing order, each once; and the parameters are, record
   after record, the record's vector literal followed by its values for the
   first record's fields in their order. *)
Inserted == Did("insert") /\ ~ret.out.threw

\* the text between '(' and ') VALUES', and the text between 'VALUES ' and
\* ' RETURNING'
PlaceOf(cs, text) ==
  CHOOSE i \in 1..Len(text) : SubSeq(text, i, i + Len(cs) - 1) = cs
ColumnsText(text) ==
  SubSeq(text, PlaceOf(<<" ", "(">>, text) + 2,
         PlaceOf(<<")", " ", "V", "A", "L", "U", "E", "S", " ">>, text) - 1)
TuplesText(text) ==
  SubSeq(text, PlaceOf(<<")", " ", "V", "A", "L", "U", "E", "S", " ">>, text) + 9,
         PlaceOf(<<" ", "R", "E", "T", "U", "R", "N", "I", "N", "G", " ">>, text) - 1)

ExpectedColumns ==
  <<escapeIdentifier(args.column).val.chars>>
    \o [j \in 1..Len(args.records[1].fields) |->
          escapeIdentifier(StringValue(args.records[1].fields[j].key)).val.chars]

ExpectedTuple(i, width) ==
  <<"(">> \o Join([j \in 1..width |-> <<"$">> \o Decimal((i - 1) * width + j)], <<",", " ">>)
    \o <<")">>

C29_InsertStatementShape ==
  Inserted =>
    LET n == Len(args.records)
        f == Len(args.records[1].fields)
    IN /\ ColumnsText(ret.out.sql) = Join(ExpectedColumns, <<",", " ">>)
       /\ TuplesText(ret.out.sql) =
            Join([i \in 1..n |-> ExpectedTuple(i, f + 1)], <<",", " ">>)
       /\ Placeholders(ret.out.sql) = 1..(n * (f + 1))
       /\ Len(ret.out.params) = n * (f + 1)
       /\ \A i \in 0..(n - 1) :
            /\ ret.out.params[i * (f + 1) + 1] =
                 StringValue(vectorLiteral(args.records[i + 1].vector))
            /\ \A j \in 1..f :
                 ret.out.params[i * (f + 1) + 1 + j] =
                   FieldOf(args.records[i + 1], args.records[1].fields[j].key)


(* C30: whatever maxRetries is (0, positive, negative, not a number), a call
   of queryWithRetry that has settled has made at least one attempt, and when
   it rejected, it rejected with the error its latest attempt raised, never
   with undefined. *)
C30_AtLeastOneAttempt ==
  \A r \in Reqs :
    (kind[r] = "queryWithRetry" /\ pc[r] \in {"succeeded", "failed"}) =>
      /\ attempts[r] >= 1
      /\ pc[r] = "failed" =>
           /\ result[r].err # Undefined
           /\ result[r].err = lastRaised[r]

====
